---- MODULE Spec2Model ----
(***************************************************************************)
(* Model of the hercules backend: the room-scoped WebSocket registry       *)
(* (app/websocket_manager.py), the websocket endpoint (main.py) and the    *)
(* conversation relay run_autogen_chat (app/autogen_manager.py) with the   *)
(* transcript store (app/supabase_client.py).                              *)
(*                                                                         *)
(* The server is one asyncio event loop: a step of the model is the code a *)
(* coroutine runs between two suspension points (await websocket.accept,   *)
(* await websocket.receive_text, await connection.send_text, the awaited   *)
(* agent runtime).  store_ai_message_in_supabase contains no await of its  *)
(* own (client...execute() is a blocking call), so it runs inside the step *)
(* of its caller.                                                          *)
(***************************************************************************)
EXTENDS Integers, Sequences, FiniteSets, TLC

\* ------------------------------------------------------------------ bounds
MaxConns == 2          \* WebSocket objects the clients may open
MaxMsgs == 2           \* messages the agent runtime emits in one session
MaxHist == 2           \* entries of a chat history handed to the scan alone

Conns == 1..MaxConns
Rooms == {"r1", "r2"}
Sessions == {"s1", "s2"}
Users == {"u1"}
\* the values str(time.time()) takes
Clocks == {"t1", "t2"}

\* ------------------------------------------------------------- strings
\* A Python str is modelled as a sequence of one-character strings, so that
\* strip() and upper() are computed and not assumed.
sTERMINATE == <<"T", "E", "R", "M", "I", "N", "A", "T", "E">>
sTermPadded == <<" ", "t", "e", "r", "m", "i", "n", "a", "t", "e", " ">>
sHi == <<"h", "i">>
sOk == <<"o", "k">>
sOkPadded == <<" ", "o", "k", " ">>
sTerminateLater ==
    <<"t", "e", "r", "m", "i", "n", "a", "t", "e", " ", "l", "a", "t", "e", "r">>
sDoneTERMINATE ==
    <<"d", "o", "n", "e", " ", "T", "E", "R", "M", "I", "N", "A", "T", "E">>
sTermNewline == <<"T", "e", "r", "m", "i", "n", "a", "t", "e", "\n">>
sWhitespace == <<" ", "\n", "\t">>
sEmpty == <<>>
sBlank == <<" ">>
\* Python None, kept apart from every str (a str has one-character elements)
None == <<"None">>

\* the whitespace str.strip() removes, on the alphabet the model uses
IsSpace(ch) == ch \in {" ", "\t", "\n"}

\* str.upper() on the alphabet the model uses
UpperChar(ch) ==
    CASE ch = "t" -> "T" [] ch = "e" -> "E" [] ch = "r" -> "R"
      [] ch = "m" -> "M" [] ch = "i" -> "I" [] ch = "n" -> "N"
      [] ch = "a" -> "A" [] ch = "h" -> "H" [] ch = "o" -> "O"
      [] ch = "k" -> "K" [] ch = "l" -> "L" [] ch = "d" -> "D"
      [] OTHER -> ch

upper(str) == [i \in 1..Len(str) |-> UpperChar(str[i])]

RECURSIVE lstrip(_)
lstrip(str) ==
    IF str # <<>> /\ IsSpace(Head(str)) THEN lstrip(Tail(str)) ELSE str

RECURSIVE rstrip(_)
rstrip(str) ==
    IF str # <<>> /\ IsSpace(str[Len(str)])
    THEN rstrip(SubSeq(str, 1, Len(str) - 1)) ELSE str

\* variant: nothing is removed
stripNothing(str) == str

strip(str) == rstrip(lstrip(str))

\* Python truthiness of an Optional[str]
Truthy(content) == content # None /\ content # <<>>

\* -------------------------------------------------- registry (pure part)
\* active_connections is a defaultdict(list): a function from the room ids
\* that are keys to the list of their WebSockets.

\* defaultdict.__getitem__: reading a missing key inserts an empty list
GetItem(ac, room_id) ==
    IF room_id \in DOMAIN ac THEN ac ELSE ac @@ (room_id :> <<>>)

\* variant: deleting one key empties the dictionary
DelItemAll(ac, room_id) == <<>>

DelItem(ac, room_id) == [r \in DOMAIN ac \ {room_id} |-> ac[r]]

InList(x, list) == \E i \in 1..Len(list) : list[i] = x

Range(list) == {list[i] : i \in 1..Len(list)}

Live(ac, room_id) == IF room_id \in DOMAIN ac THEN Range(ac[room_id]) ELSE {}

\* list.remove(x): removes the first occurrence
RECURSIVE ListRemove(_, _)
ListRemove(list, x) ==
    IF list = <<>> THEN <<>>
    ELSE IF Head(list) = x THEN Tail(list)
    ELSE <<Head(list)>> \o ListRemove(Tail(list), x)

\* variant: disconnect leaves the registry as it is
disconnectNothing(ac, websocket, room_id) == GetItem(ac, room_id)

\* variant: the entry of a room is kept when its list becomes empty
disconnectKeepsEntry(ac, websocket, room_id) ==
    LET ac1 == GetItem(ac, room_id) IN
    IF InList(websocket, ac1[room_id])
    THEN [ac1 EXCEPT ![room_id] = ListRemove(@, websocket)]
    ELSE ac1

\* WebSocketManager.disconnect
disconnect(ac, websocket, room_id) ==
    LET ac1 == GetItem(ac, room_id) IN
    IF InList(websocket, ac1[room_id])
    THEN LET ac2 == [ac1 EXCEPT ![room_id] = ListRemove(@, websocket)] IN
         IF ac2[room_id] = <<>> THEN DelItem(ac2, room_id) ELSE ac2
    ELSE ac1

\* variant: the WebSocket is added to the list of every room there is
connectEveryRoom(ac, websocket, room_id) ==
    LET ac1 == GetItem(ac, room_id) IN
    [r \in DOMAIN ac1 |-> Append(ac1[r], websocket)]

\* variant: the WebSocket is appended twice
connectTwice(ac, websocket, room_id) ==
    [GetItem(ac, room_id) EXCEPT ![room_id] = Append(Append(@, websocket), websocket)]

\* the registration of WebSocketManager.connect, after accept() returned
connect(ac, websocket, room_id) ==
    [GetItem(ac, room_id) EXCEPT ![room_id] = Append(@, websocket)]

\* variant: a failed send removes the WebSocket from the lists of the registry
send_personal_message_prunes(ac, message, open, queue) ==
    IF open
    THEN [ret |-> None, sent |-> TRUE, ac |-> ac,
          queue |-> Append(queue, [payload |-> message,
                                   tag |-> [src |-> "personal", k |-> 0]])]
    ELSE [ret |-> None, sent |-> FALSE, queue |-> queue,
          ac |-> [r \in DOMAIN ac |-> SelectSeq(ac[r], LAMBDA x : FALSE)]]

\* WebSocketManager.send_personal_message: one send_text; an exception of it
\* is caught and printed, and the method has no return statement.  open says
\* whether the client's side takes the text, queue is what the client was
\* sent so far.
send_personal_message(ac, message, open, queue) ==
    IF open
    THEN [ret |-> None, sent |-> TRUE, ac |-> ac,
          queue |-> Append(queue, [payload |-> message,
                                   tag |-> [src |-> "personal", k |-> 0]])]
    ELSE [ret |-> None, sent |-> FALSE, ac |-> ac, queue |-> queue]

\* The list object of a room is dropped by this disconnect (del on line 24).
\* A list iterator that was running over it keeps the dropped, empty list.
DropsList(ac, websocket, room_id) ==
    /\ room_id \in DOMAIN ac
    /\ InList(websocket, ac[room_id])
    /\ room_id \notin DOMAIN disconnect(ac, websocket, room_id)

\* variant: a failed send drops the list of the room
PruneRoom(ac, socks, room_id) ==
    IF socks = <<>> THEN ac ELSE DelItem(ac, room_id)

\* the clean-up loop of broadcast_to_room over disconnected_sockets
RECURSIVE PruneAll(_, _, _)
PruneAll(ac, socks, room_id) ==
    IF socks = <<>> THEN ac
    ELSE PruneAll(disconnect(ac, Head(socks), room_id), Tail(socks), room_id)

RECURSIVE PruneDrops(_, _, _)
PruneDrops(ac, socks, room_id) ==
    IF socks = <<>> THEN FALSE
    ELSE \/ DropsList(ac, Head(socks), room_id)
         \/ PruneDrops(disconnect(ac, Head(socks), room_id), Tail(socks), room_id)

\* ------------------------------------------------- transcript store
\* get_supabase_admin_client raises ConnectionError when the module global
\* supabase_admin_client is None
\* the Client object create_client returned
Client == <<"Client">>

ClientRaises(client) == client = None

\* what client.table("ai_messages").insert(...).execute() can do:
\* return the inserted row, return no data, or raise
InsertOutcomes == {"data", "nodata", "exception"}

MissingRequired(message_data) ==
    \/ "room_id" \notin DOMAIN message_data \/ message_data.room_id = ""
    \/ "agent_name" \notin DOMAIN message_data \/ message_data.agent_name = ""
    \/ "content" \notin DOMAIN message_data \/ ~Truthy(message_data.content)

\* the row the insert leaves in the table; tag names the message it came from
Row(message_data, tag) == [data |-> message_data, tag |-> tag]

\* variant: the table returns its rows newest first
TableInsertFirst(table, row) == <<row>> \o table

TableInsert(table, row) == Append(table, row)

\* variant: no except clause around the insert, its exception leaves the call
store_ai_message_uncaught(client, table, message_data, tag, insert) ==
    IF ClientRaises(client)
    THEN [raised |-> TRUE, error |-> FALSE, table |-> table]
    ELSE IF MissingRequired(message_data)
    THEN [raised |-> FALSE, error |-> TRUE, table |-> table]
    ELSE IF insert = "exception"
    THEN [raised |-> TRUE, error |-> FALSE, table |-> table]
    ELSE [raised |-> FALSE, error |-> insert = "nodata",
          table |-> TableInsert(table, Row(message_data, tag))]

\* store_ai_message_in_supabase: [raised, error, table]
store_ai_message_in_supabase(client, table, message_data, tag, insert) ==
    IF ClientRaises(client)
    THEN [raised |-> TRUE, error |-> FALSE, table |-> table]
    ELSE IF MissingRequired(message_data)
    THEN [raised |-> FALSE, error |-> TRUE, table |-> table]
    ELSE IF insert = "data"
    THEN [raised |-> FALSE, error |-> FALSE,
          table |-> TableInsert(table, Row(message_data, tag))]
    ELSE IF insert = "nodata"
    THEN [raised |-> FALSE, error |-> TRUE,
          table |-> TableInsert(table, Row(message_data, tag))]
    ELSE [raised |-> FALSE, error |-> TRUE, table |-> table]

\* ------------------------------------------------------ room manager
\* hashlib.sha256(f"{user_id}{timestamp_str}").hexdigest(): one room id for
\* each string that is hashed (no two strings of the model collide)
sha256_hexdigest(user_id, timestamp_str) ==
    CASE timestamp_str = "t1" -> "r1"
      [] timestamp_str = "t2" -> "r2"

HTTP_500_INTERNAL_SERVER_ERROR == 500
HTTP_503_SERVICE_UNAVAILABLE == 503

\* create_task_room: [room_id, error (a status code, 0 for None), rooms].
\* timestamp_str is str(time.time()), mkdir says whether the directory and
\* input_prompt.txt could be written, insert what the insert into the table
\* rooms does.
create_task_room(client, rooms, user_id, task_prompt, timestamp_str, mkdir, insert) ==
    IF ClientRaises(client)
    THEN [room_id |-> "", error |-> HTTP_503_SERVICE_UNAVAILABLE, rooms |-> rooms]
    ELSE LET room_id == sha256_hexdigest(user_id, timestamp_str)
             room_metadata_to_store ==
                 [room_id |-> room_id, user_id |-> user_id,
                  task_prompt |-> task_prompt, status |-> "pending"] IN
         IF ~mkdir
         THEN [room_id |-> "", error |-> HTTP_500_INTERNAL_SERVER_ERROR, rooms |-> rooms]
         ELSE IF insert = "data"
         THEN [room_id |-> room_id, error |-> 0,
               rooms |-> Append(rooms, room_metadata_to_store)]
         ELSE IF insert = "nodata"
         THEN [room_id |-> "", error |-> HTTP_500_INTERNAL_SERVER_ERROR,
               rooms |-> Append(rooms, room_metadata_to_store)]
         ELSE [room_id |-> "", error |-> HTTP_500_INTERNAL_SERVER_ERROR, rooms |-> rooms]

\* ------------------------------------------------------ llm router
DEFAULT_OPENAI_MODEL == "gpt-3.5-turbo"
PLACEHOLDER_KEY == "sk-THIS_IS_A_PLACEHOLDER_KEY_DO_NOT_USE_IT"
REAL_KEY == "sk-testkey12345"

\* get_llm_config: the api_key of config_list[0]; env_key is OPENAI_API_KEY
get_llm_config(env_key) == IF env_key # "" THEN env_key ELSE PLACEHOLDER_KEY

\* str.startswith("sk-THIS_IS_A_PLACEHOLDER") on the keys of the model
IsPlaceholderKey(api_key) == api_key = PLACEHOLDER_KEY

\* --------------------------------------------------- relay (pure part)
\* variant: the sentinel is compared without upper()
IsOrdinaryCaseSensitive(content) ==
    /\ Truthy(content) /\ strip(content) # <<>>
    /\ strip(content) # sTERMINATE

IsOrdinary(content) ==
    /\ Truthy(content) /\ strip(content) # <<>>
    /\ upper(strip(content)) # sTERMINATE

\* str.endswith
endswith(s, suffix) ==
    /\ Len(s) >= Len(suffix)
    /\ SubSeq(s, Len(s) - Len(suffix) + 1, Len(s)) = suffix

\* variant: the content is not trimmed
is_termination_msg_untrimmed(x) == endswith(upper(x.content), sTERMINATE)

\* line 91, the is_termination_msg of the UserProxy, for a message whose
\* content is a str:
\* lambda x: x.get("content", "").rstrip().upper().endswith("TERMINATE")
is_termination_msg(x) == endswith(upper(rstrip(x.content)), sTERMINATE)

IsTermination(content) ==
    Truthy(content) /\ upper(strip(content)) = sTERMINATE

warning_msg == <<"Critical: Autogen agents running with a placeholder LLM key. Real LLM calls will fail.">>
autogen_error_content == <<"Autogen Error: ", "e">>
NoReplyPlaceholder == <<"No specific initial response captured / only TERMINATE.">>

WarningPayload ==
    [agent |-> "System", error |-> warning_msg, message_type |-> "llm_config_warning"]
WarningRecord(room_id) ==
    [room_id |-> room_id, agent_name |-> "System", content |-> warning_msg,
     custom_type |-> "llm_config_warning"]
PromptPayload(user_prompt) == [agent |-> "UserProxy", message |-> user_prompt]
PromptRecord(room_id, user_prompt) ==
    [room_id |-> room_id, agent_name |-> "UserProxy", content |-> user_prompt]
OrdinaryPayload(agent_name, content) == [agent |-> agent_name, message |-> content]
\* variant: the termination is sent as an ordinary message
TerminatePayloadNoEvent(agent_name) ==
    [agent |-> agent_name, message |-> <<agent_name, " has finished.">>]

TerminatePayload(agent_name) ==
    [agent |-> agent_name, event |-> "TERMINATE",
     message |-> <<agent_name, " has finished.">>]
\* the record of lines 65-71; the Assistant has an llm_config (line 97), the
\* UserProxy has none, and the messages of the model carry no tool_calls
MessageRecord(room_id, agent_name, content) ==
    LET message_to_store ==
            [room_id |-> room_id, agent_name |-> agent_name, content |-> content] IN
    IF agent_name = "Assistant"
    THEN message_to_store @@ [model_used |-> DEFAULT_OPENAI_MODEL]
    ELSE message_to_store
StoreFailedPayload(agent_name) ==
    [agent |-> "System",
     error |-> <<"Failed to store message from ", agent_name, " to database.">>]
AutogenErrorPayload ==
    [agent |-> "System", error |-> autogen_error_content, message_type |-> "autogen_error"]
AutogenErrorRecord(room_id) ==
    [room_id |-> room_id, agent_name |-> "System", content |-> autogen_error_content,
     custom_type |-> "autogen_error"]

\* variant: the timestamp is set whether the message has one or not
WithTimestampFresh(message) ==
    [k \in DOMAIN message \cup {"timestamp"} |->
        IF k = "timestamp" THEN "now" ELSE message[k]]

\* message.copy() and the timestamp of broadcast_to_room
WithTimestamp(message) ==
    IF "timestamp" \in DOMAIN message THEN message
    ELSE message @@ ("timestamp" :> "now")

\* variant: the scan returns the content as it is in the history
RECURSIVE FirstAssistantResponseUntrimmed(_)
FirstAssistantResponseUntrimmed(history) ==
    IF history = <<>> THEN None
    ELSE LET msg_dict == Head(history) IN
         IF /\ msg_dict.role = "assistant" /\ Truthy(msg_dict.content)
            /\ strip(msg_dict.content) # <<>>
            /\ upper(strip(msg_dict.content)) # sTERMINATE
         THEN msg_dict.content
         ELSE FirstAssistantResponseUntrimmed(Tail(history))

\* the scan of the chat history for the first assistant response
RECURSIVE FirstAssistantResponse(_)
FirstAssistantResponse(history) ==
    IF history = <<>> THEN None
    ELSE LET msg_dict == Head(history) IN
         IF /\ msg_dict.role = "assistant" /\ Truthy(msg_dict.content)
            /\ strip(msg_dict.content) # <<>>
            /\ upper(strip(msg_dict.content)) # sTERMINATE
         THEN strip(msg_dict.content)
         ELSE FirstAssistantResponse(Tail(history))

LogEntry(user_prompt, first) ==
    [event |-> "Autogen chat session processing complete.",
     prompt |-> user_prompt,
     first_assistant_response_captured_for_log_file |->
         IF Truthy(first) THEN first ELSE NoReplyPlaceholder]

\* ------------------------------------------------------------ state
VARIABLES
    active_connections,      \* WebSocketManager.active_connections
    transport,               \* per WebSocket: "new", "open" or "closed" (the client's side)
    ep,                      \* per WebSocket: where its websocket_endpoint coroutine is
    received,                \* per WebSocket: what the client was sent, in order
    supabase_admin_client,   \* the module global of supabase_client.py
    ai_messages,             \* the rows of the table ai_messages, in insertion order
    agent_log,               \* per room: the lines of data/rooms/<room>/agent_log.json
    sess,                    \* per session: where its run_autogen_chat coroutine is
    personal,                \* per WebSocket: the send_personal_message calls made for it
    rooms_table              \* the rows of the table rooms, in insertion order

vars == <<active_connections, transport, ep, received, supabase_admin_client,
          ai_messages, agent_log, sess, personal, rooms_table>>

\* The inputs a specification draws from: the rooms and WebSockets of the
\* clients, the prompts and OPENAI_API_KEY values of the sessions, what the
\* insert into ai_messages does, and what the agent runtime hands to the
\* callback (the sender's name and the content).
RelayInputs ==
    [sessions |-> {"s1"}, rooms |-> {"r1"}, conns |-> {1},
     prompts |-> {sHi, sTERMINATE, sEmpty},
     keys |-> {"", REAL_KEY},
     inserts |-> InsertOutcomes,
     msgs |-> { [sender |-> "Assistant", content |-> sOk],
                [sender |-> "Assistant", content |-> sTERMINATE],
                [sender |-> "UserProxy", content |-> sTermPadded] }]

RegistryInputs ==
    [sessions |-> {"s1"}, rooms |-> Rooms, conns |-> Conns,
     prompts |-> {sHi},
     keys |-> {REAL_KEY},
     inserts |-> {"data"},
     msgs |-> { [sender |-> "Assistant", content |-> sOk] }]

\* a session of a room with one client, over the contents a message can have
ClassifyInputs ==
    [sessions |-> {"s1"}, rooms |-> {"r1"}, conns |-> {1},
     prompts |-> {sHi},
     keys |-> {REAL_KEY},
     inserts |-> {"data", "nodata"},
     msgs |-> [sender : {"Assistant"},
               content : {sOk, sOkPadded, sTERMINATE, sTermPadded, sTermNewline,
                          sTerminateLater, sDoneTERMINATE,
                          sEmpty, sBlank, sWhitespace, None}]]

\* the requests POST /api/tasks of one user: two of them, each with any
\* clock value, with one client watching room r1
TaskInputs ==
    [sessions |-> Sessions, rooms |-> {"r1"}, conns |-> {1},
     users |-> Users, clocks |-> Clocks,
     prompts |-> {sHi},
     keys |-> {REAL_KEY},
     mkdirs |-> BOOLEAN,
     room_inserts |-> InsertOutcomes,
     inserts |-> {"data"},
     msgs |-> { [sender |-> "Assistant", content |-> sOk] }]

\* room r1 with its session and its client, and room r2 with its own
RoomAInputs ==
    [sessions |-> {"s1"}, rooms |-> {"r1"}, conns |-> {1},
     prompts |-> {sHi},
     keys |-> {REAL_KEY},
     inserts |-> {"data"},
     msgs |-> { [sender |-> "Assistant", content |-> sOk] }]

RoomBInputs ==
    [sessions |-> {"s2"}, rooms |-> {"r2"}, conns |-> {2},
     prompts |-> {sHi},
     keys |-> {REAL_KEY},
     inserts |-> {"data"},
     msgs |-> { [sender |-> "Assistant", content |-> sOk] }]

\* the clients of one room and one plain session of it
LazyInputs ==
    [sessions |-> {"s1"}, rooms |-> {"r1"}, conns |-> Conns,
     prompts |-> {sHi},
     keys |-> {REAL_KEY},
     inserts |-> {"data"},
     msgs |-> { [sender |-> "Assistant", content |-> sOk] }]

\* one session of a room with one client, and a runtime whose agents answer
\* each other
TurnInputs ==
    [sessions |-> {"s1"}, rooms |-> {"r1"}, conns |-> {1},
     prompts |-> {sHi},
     keys |-> {REAL_KEY},
     inserts |-> {"data"},
     contents |-> {sOk}]

\* the objects the runtime can pass to the callback as message_dict: a
\* dict (with a "content" key or without one) or an object that is not a
\* dict (a str)
Dict(value) == [type |-> "dict", value |-> value]
Str(value) == [type |-> "str", value |-> value]

\* repr of the dict {"role": "assistant"}
sReprRoleOnly ==
    <<"{", "'", "r", "o", "l", "e", "'", ":", " ",
      "'", "a", "s", "s", "i", "s", "t", "a", "n", "t", "'", "}">>

\* a session of a room with one client, over the shapes of message_dict
ShapeInputs ==
    [sessions |-> {"s1"}, rooms |-> {"r1"}, conns |-> {1},
     prompts |-> {sHi},
     keys |-> {REAL_KEY},
     inserts |-> {"data"},
     message_dicts |-> {Dict([content |-> sOk]), Dict([content |-> sTERMINATE]),
                        Dict([content |-> None]), Dict([role |-> "assistant"]),
                        Str(sOk), Str(sTermPadded), Str(sEmpty)}]

\* the clients of one room and callers of broadcast_to_room with a message
\* that has a timestamp and with messages that have none
BroadcastInputs ==
    [sessions |-> Sessions, rooms |-> {"r1"}, conns |-> Conns,
     inserts |-> {"data"},
     messages |-> {[agent |-> "System", message |-> sHi],
                   [agent |-> "System", message |-> sOk, timestamp |-> "t0"],
                   [agent |-> "System", error |-> sOk, message_type |-> "note"]}]

NoBc == [active |-> FALSE]
\* no send_personal_message call was made; then: how many were made, whether
\* the send_text of the last one went through, and what the call returned
NoPersonal == [calls |-> 0, sent |-> FALSE, ret |-> None]
NoMsg == [sender |-> "", content |-> None]

IdleSession ==
    [pc |-> "idle", room_id |-> "", user_prompt |-> None, api_key |-> "",
     n |-> 0, msg |-> NoMsg, bc |-> NoBc, history |-> <<>>,
     ret |-> None, outcome |-> "none", rets |-> <<>>, trace |-> <<>>]

\* the program points at which a session is suspended inside broadcast_to_room
BcPcs == {"bc_warn", "bc_prompt", "bc_msg", "bc_term", "bc_dberr", "bc_fail", "bc_call"}

Init ==
    /\ active_connections = <<>>
    /\ transport = [c \in Conns |-> "new"]
    /\ ep = [c \in Conns |-> [pc |-> "idle", room_id |-> ""]]
    /\ received = [c \in Conns |-> <<>>]
    /\ supabase_admin_client \in {Client, None}
    /\ ai_messages = <<>>
    /\ agent_log = [r \in Rooms |-> <<>>]
    /\ sess = [s \in Sessions |-> IdleSession]
    /\ personal = [c \in Conns |-> NoPersonal]
    /\ rooms_table = <<>>

\* the server was started with SUPABASE_URL and SUPABASE_SERVICE_KEY set
InitRegistry == Init /\ supabase_admin_client = Client

\* --------------------------------------------- run_autogen_chat, by segment
\* st = [s: the session, table: ai_messages, log: agent_log]; a segment runs
\* the code from one suspension point to the next and returns the new st.
\* ac is the registry as the segment finds it.

Ev(st, e) == [st EXCEPT !.s.trace = Append(@, e)]

Tag(src, k) == [src |-> src, k |-> k]

\* broadcast_to_room up to its first send: the room has connections and the
\* coroutine suspends in the send to the first (pc = at), or it returns at once
\* The fields snap, stable, attempted, delivered and steady of the call are
\* history: the live list at the call, its members that never left it, the
\* connections a send was started to and succeeded for, and whether no client
\* of snap closed during the call.
BroadcastEnter(st, ac, message, tag, at) ==
    LET st1 == Ev(st, [ev |-> "broadcast", tag |-> tag])
        room_id == st.s.room_id IN
    IF room_id \in DOMAIN ac /\ ac[room_id] # <<>>
    THEN [st1 EXCEPT !.s.pc = at,
                     !.s.bc = [active |-> TRUE, msg |-> WithTimestamp(message),
                               message |-> message, tag |-> tag, idx |-> 1, cur |-> ac[room_id][1],
                               failed |-> <<>>, detached |-> FALSE,
                               snap |-> ac[room_id], stable |-> Range(ac[room_id]),
                               attempted |-> <<ac[room_id][1]>>,
                               delivered |-> <<>>, steady |-> TRUE]]
    ELSE Ev([st1 EXCEPT !.s.pc = "go"], [ev |-> "broadcast_end", tag |-> tag])

\* an awaited store_ai_message_in_supabase: the session's part of the result.
\* Whether the append returned an error is history for the appends of the
\* messages and of the error record.
Store(st, client, message_data, tag, insert) ==
    LET r == store_ai_message_in_supabase(client, st.table, message_data, tag, insert)
        e == [ev |-> "append", tag |-> tag, raised |-> r.raised] IN
    [st |-> Ev([st EXCEPT !.table = r.table],
               IF tag.src \in {"message", "autogen_error"}
               THEN e @@ [error |-> r.error] ELSE e),
     raised |-> r.raised, error |-> r.error]

\* the exception leaves run_autogen_chat
Raise(st) == [st EXCEPT !.s.pc = "raised", !.s.outcome = "RAISED", !.s.bc = NoBc]

\* lines 110-112: the runtime is invoked
InvokeRuntime(st) ==
    Ev([st EXCEPT !.s.pc = "runtime", !.s.bc = NoBc], [ev |-> "runtime"])

\* variant: the runtime is invoked without the prompt being appended and
\* broadcast first
PromptSegmentSkipped(st, ac, client, insert) == InvokeRuntime(st)

\* lines 106-108: the initial prompt
PromptSegment(st, ac, client, insert) ==
    LET a == Store(st, client, PromptRecord(st.s.room_id, st.s.user_prompt),
                   Tag("prompt", 0), insert) IN
    IF a.raised THEN Raise(a.st)
    ELSE LET b == BroadcastEnter(a.st, ac, PromptPayload(st.s.user_prompt),
                                 Tag("prompt", 0), "bc_prompt") IN
         IF b.s.pc = "bc_prompt" THEN b ELSE InvokeRuntime(b)

\* lines 37-40 and on: after the broadcast of the placeholder-key warning
AfterWarn(st, ac, client, insert1, insert2) ==
    LET a == Store(st, client, WarningRecord(st.s.room_id), Tag("warning", 0), insert1) IN
    IF a.raised THEN Raise(a.st)
    ELSE PromptSegment(a.st, ac, client, insert2)

\* lines 25-35 and on: the call of run_autogen_chat
StartSegment(st, ac, client, insert1, insert2) ==
    IF IsPlaceholderKey(st.s.api_key)
    THEN LET b == BroadcastEnter(st, ac, WarningPayload, Tag("warning", 0), "bc_warn") IN
         IF b.s.pc = "bc_warn" THEN b ELSE AfterWarn(b, ac, client, insert1, insert2)
    ELSE PromptSegment(st, ac, client, insert2)

\* variant: the callback returns True
CallbackReturnTrue(st) ==
    Ev([st EXCEPT !.s.pc = "runtime", !.s.bc = NoBc, !.s.msg = NoMsg,
                  !.s.rets = Append(@, TRUE)],
       [ev |-> "callback_end", k |-> st.s.n])

\* line 84: the callback returns False; the runtime goes on
CallbackReturn(st) ==
    Ev([st EXCEPT !.s.pc = "runtime", !.s.bc = NoBc, !.s.msg = NoMsg,
                  !.s.rets = Append(@, FALSE)],
       [ev |-> "callback_end", k |-> st.s.n])

\* variant: the except branch returns without storing the error record
AfterFailNoRecord(st, client, insert) ==
    [st EXCEPT !.s.pc = "returned", !.s.outcome = "FAILED",
               !.s.ret = None, !.s.bc = NoBc]

\* lines 126-129: after the broadcast of the Autogen error
AfterFail(st, client, insert) ==
    LET a == Store(st, client, AutogenErrorRecord(st.s.room_id),
                   Tag("autogen_error", 0), insert) IN
    IF a.raised THEN Raise(a.st)
    ELSE [a.st EXCEPT !.s.pc = "returned", !.s.outcome = "FAILED",
                      !.s.ret = None, !.s.bc = NoBc]

\* lines 122-125: the except branch
ExceptSegment(st, ac, client, insert) ==
    LET b == BroadcastEnter([st EXCEPT !.s.msg = NoMsg], ac, AutogenErrorPayload,
                            Tag("autogen_error", 0), "bc_fail") IN
    IF b.s.pc = "bc_fail" THEN b ELSE AfterFail(b, client, insert)

\* variant: an append that returns an error ends the turn as an exception does
AfterMsgAborts(st, ac, client, insert) ==
    LET m == st.s.msg
        a == Store(st, client, MessageRecord(st.s.room_id, m.sender, m.content),
                   Tag("message", st.s.n), insert) IN
    IF a.raised \/ a.error THEN ExceptSegment(a.st, ac, client, insert)
    ELSE CallbackReturn(a.st)

\* lines 64-83: the callback after the broadcast of an ordinary message
AfterMsg(st, ac, client, insert) ==
    LET m == st.s.msg
        a == Store(st, client, MessageRecord(st.s.room_id, m.sender, m.content),
                   Tag("message", st.s.n), insert) IN
    IF a.raised THEN ExceptSegment(a.st, ac, client, insert)
    ELSE IF a.error
    THEN LET b == BroadcastEnter(a.st, ac, StoreFailedPayload(m.sender),
                                 Tag("db_error", st.s.n), "bc_dberr") IN
         IF b.s.pc = "bc_dberr" THEN b ELSE CallbackReturn(b)
    ELSE CallbackReturn(a.st)

\* variant: a message nobody was there to be sent to is not stored
CallbackSegmentNeedsAudience(st, ac, client, insert) ==
    LET m == st.s.msg IN
    IF IsOrdinary(m.content)
    THEN LET b == BroadcastEnter(st, ac, OrdinaryPayload(m.sender, m.content),
                                 Tag("message", st.s.n), "bc_msg") IN
         IF b.s.pc = "bc_msg" THEN b ELSE CallbackReturn(b)
    ELSE IF IsTermination(m.content)
    THEN LET b == BroadcastEnter(st, ac, TerminatePayload(m.sender),
                                 Tag("terminate", st.s.n), "bc_term") IN
         IF b.s.pc = "bc_term" THEN b ELSE CallbackReturn(b)
    ELSE CallbackReturn(st)

\* lines 46-61: the callback is called with a message
CallbackSegment(st, ac, client, insert) ==
    LET m == st.s.msg IN
    IF IsOrdinary(m.content)
    THEN LET b == BroadcastEnter(st, ac, OrdinaryPayload(m.sender, m.content),
                                 Tag("message", st.s.n), "bc_msg") IN
         IF b.s.pc = "bc_msg" THEN b ELSE AfterMsg(b, ac, client, insert)
    ELSE IF IsTermination(m.content)
    THEN LET b == BroadcastEnter(st, ac, TerminatePayload(m.sender),
                                 Tag("terminate", st.s.n), "bc_term") IN
         IF b.s.pc = "bc_term" THEN b ELSE CallbackReturn(b)
    ELSE CallbackReturn(st)

\* variant: the session returns without writing agent_log.json
FinishSegmentNoLog(st) ==
    [st EXCEPT !.s.pc = "returned", !.s.outcome = "TERMINATED",
               !.s.ret = FirstAssistantResponse(st.s.history)]

\* lines 113-121 and 131-143: the runtime returned
FinishSegment(st) ==
    LET first == FirstAssistantResponse(st.s.history)
        room_id == st.s.room_id IN
    Ev([st EXCEPT !.log[room_id] = Append(@, LogEntry(st.s.user_prompt, first)),
                  !.s.pc = "returned", !.s.outcome = "TERMINATED", !.s.ret = first],
       [ev |-> "log"])

\* the code after broadcast_to_room returned to the place it was called from
AfterBroadcast(st1, ac, client, insert1, insert2) ==
    LET at == st1.s.pc IN
    CASE at = "bc_warn" -> AfterWarn(st1, ac, client, insert1, insert2)
      [] at = "bc_prompt" -> InvokeRuntime(st1)
      [] at = "bc_msg" -> AfterMsg(st1, ac, client, insert1)
      [] at = "bc_term" -> CallbackReturn(st1)
      [] at = "bc_dberr" -> CallbackReturn(st1)
      [] at = "bc_fail" -> AfterFail(st1, client, insert1)
      [] at = "bc_call" -> [st1 EXCEPT !.s.pc = "returned", !.s.msg = st1.s.bc.message,
                                       !.s.bc = NoBc]

\* ---------------------------------------------------------- actions
\* what the client reads from its socket after one more send_text
\* variant: the client reads the newest text first
DeliverFirst(queue, text) == <<text>> \o queue

Deliver(queue, text) == Append(queue, text)

St(s) == [s |-> sess[s], table |-> ai_messages, log |-> agent_log]

\* the iterators of the other broadcasts over a list that was dropped
Detach(ss, room_id, dropped, ac) ==
    [s \in Sessions |->
        IF ss[s].bc.active /\ ss[s].room_id = room_id
        THEN [ss[s] EXCEPT !.bc.detached = @ \/ dropped,
                           !.bc.stable = @ \cap Live(ac, room_id)]
        ELSE ss[s]]

\* history: a client of the live list a broadcast started on closed
Unsteady(ss, c) ==
    [s \in Sessions |->
        IF ss[s].bc.active /\ InList(c, ss[s].bc.snap)
        THEN [ss[s] EXCEPT !.bc.steady = FALSE] ELSE ss[s]]

\* variant: connect registers the WebSocket before it awaits accept()
websocket_endpoint_registers(c, In) ==
    /\ c \in In.conns
    /\ ep[c].pc = "idle"
    /\ \E room_id \in In.rooms :
         /\ ep' = [ep EXCEPT ![c] = [pc |-> "accepting", room_id |-> room_id]]
         /\ active_connections' = connect(active_connections, c, room_id)
    /\ UNCHANGED <<rooms_table, personal, transport, received, supabase_admin_client,
                   ai_messages, agent_log, sess>>

\* a client opens /ws/room/{room_id}: the endpoint awaits websocket.accept()
websocket_endpoint(c, In) ==
    /\ c \in In.conns
    /\ ep[c].pc = "idle"
    /\ \E room_id \in In.rooms : ep' = [ep EXCEPT ![c] = [pc |-> "accepting", room_id |-> room_id]]
    /\ UNCHANGED <<rooms_table, personal, active_connections, transport, received, supabase_admin_client,
                   ai_messages, agent_log, sess>>

\* the client goes away: from now on accept, send_text and receive_text raise
client_closes(c) ==
    /\ ep[c].pc \in {"accepting", "receiving"}
    /\ transport[c] # "closed"
    /\ transport' = [transport EXCEPT ![c] = "closed"]
    /\ sess' = Unsteady(sess, c)
    /\ UNCHANGED <<rooms_table, personal, active_connections, ep, received, supabase_admin_client,
                   ai_messages, agent_log>>

\* connect after accept() returned: the WebSocket is registered and the
\* endpoint awaits receive_text()
accept_returns(c) ==
    /\ ep[c].pc = "accepting"
    /\ transport[c] = "new"
    /\ transport' = [transport EXCEPT ![c] = "open"]
    /\ active_connections' = connect(active_connections, c, ep[c].room_id)
    /\ ep' = [ep EXCEPT ![c].pc = "receiving"]
    /\ UNCHANGED <<rooms_table, personal, received, supabase_admin_client, ai_messages, agent_log, sess>>

\* accept() raises: connect and the endpoint end with the exception
accept_raises(c) ==
    /\ ep[c].pc = "accepting"
    /\ transport[c] = "closed"
    /\ ep' = [ep EXCEPT ![c].pc = "done"]
    /\ UNCHANGED <<rooms_table, personal, active_connections, transport, received, supabase_admin_client,
                   ai_messages, agent_log, sess>>

\* receive_text() raises WebSocketDisconnect: the endpoint calls disconnect
receive_raises(c) ==
    /\ ep[c].pc = "receiving"
    /\ transport[c] = "closed"
    /\ active_connections' = disconnect(active_connections, c, ep[c].room_id)
    /\ sess' = Detach(sess, ep[c].room_id,
                      DropsList(active_connections, c, ep[c].room_id),
                      active_connections')
    /\ ep' = [ep EXCEPT ![c].pc = "done"]
    /\ UNCHANGED <<rooms_table, personal, transport, received, supabase_admin_client, ai_messages, agent_log>>

\* a caller awaits send_personal_message(message, websocket) for an accepted
\* WebSocket (the program has the two calls of it commented out)
personal_message(c) ==
    /\ ep[c].pc = "receiving"
    /\ personal[c].calls < MaxMsgs
    /\ LET r == send_personal_message(active_connections, [echo_reply |-> sHi],
                                      transport[c] = "open", received[c]) IN
         /\ received' = [received EXCEPT ![c] = r.queue]
         /\ active_connections' = r.ac
         /\ personal' = [personal EXCEPT ![c] =
                            [calls |-> @.calls + 1, sent |-> r.sent, ret |-> r.ret]]
    /\ UNCHANGED <<transport, ep, supabase_admin_client, ai_messages, agent_log, sess,
                   rooms_table>>

\* the calls of broadcast_to_room are told apart by their caller
CallNo(s) == IF s = "s1" THEN 1 ELSE 2

\* a caller awaits websocket_manager.broadcast_to_room(room_id, message)
broadcast_to_room(s, In) ==
    /\ sess[s].pc = "idle"
    /\ \E room_id \in In.rooms, message \in In.messages :
         LET st0 == Ev([St(s) EXCEPT !.s.room_id = room_id],
                       [ev |-> "call", message |-> message])
             b == BroadcastEnter(st0, active_connections, message,
                                 Tag("call", CallNo(s)), "bc_call") IN
         sess' = [sess EXCEPT ![s] =
                     IF b.s.pc = "bc_call" THEN b.s
                     ELSE [b.s EXCEPT !.pc = "returned", !.msg = message]]
    /\ UNCHANGED <<rooms_table, personal, active_connections, transport, ep, received,
                   supabase_admin_client, ai_messages, agent_log>>

\* run_autogen_chat(user_prompt, room_id) is called
run_autogen_chat(s, In) ==
    /\ sess[s].pc = "idle"
    /\ \E room_id \in In.rooms, user_prompt \in In.prompts, env_key \in In.keys,
          insert1 \in In.inserts, insert2 \in In.inserts :
         LET st0 == [St(s) EXCEPT !.s.room_id = room_id, !.s.user_prompt = user_prompt,
                                  !.s.api_key = get_llm_config(env_key)]
             st == StartSegment(st0, active_connections, supabase_admin_client,
                                insert1, insert2) IN
         /\ sess' = [sess EXCEPT ![s] = st.s]
         /\ ai_messages' = st.table
         /\ agent_log' = st.log
    /\ UNCHANGED <<rooms_table, personal, active_connections, transport, ep, received, supabase_admin_client>>

\* POST /api/tasks: create_task_room and then run_autogen_chat up to its
\* first suspension, or the HTTPException when the room was not created
create_task_api_endpoint(s, In) ==
    /\ sess[s].pc = "idle"
    /\ \E user_id \in In.users, task_prompt \in In.prompts, timestamp_str \in In.clocks,
          mkdir \in In.mkdirs, room_insert \in In.room_inserts, env_key \in In.keys,
          insert1 \in In.inserts, insert2 \in In.inserts :
         LET r == create_task_room(supabase_admin_client, rooms_table, user_id,
                                   task_prompt, timestamp_str, mkdir, room_insert)
             st0 == [St(s) EXCEPT !.s.room_id = r.room_id,
                                  !.s.user_prompt = task_prompt,
                                  !.s.api_key = get_llm_config(env_key)]
             st == StartSegment(st0, active_connections, supabase_admin_client,
                                insert1, insert2) IN
         /\ rooms_table' = r.rooms
         /\ IF r.error # 0
            THEN /\ sess' = [sess EXCEPT ![s].pc = "rejected",
                                         ![s].outcome = <<"HTTP", r.error>>]
                 /\ UNCHANGED <<ai_messages, agent_log>>
            ELSE /\ sess' = [sess EXCEPT ![s] = st.s]
                 /\ ai_messages' = st.table
                 /\ agent_log' = st.log
    /\ UNCHANGED <<active_connections, transport, ep, received, supabase_admin_client,
                   personal>>

\* the send_text a broadcast is suspended in returns or raises; the loop of
\* broadcast_to_room takes the next connection of the live list or ends, and
\* then the clean-up and the caller's code run up to the next suspension
send_text_returns(s, In) ==
    /\ sess[s].pc \in BcPcs
    /\ LET bc == sess[s].bc
           room_id == sess[s].room_id
           sent == transport[bc.cur] = "open"
           failed == IF sent THEN bc.failed ELSE Append(bc.failed, bc.cur)
           list == IF bc.detached THEN <<>> ELSE active_connections[room_id]
           delivered == IF sent THEN Append(bc.delivered, bc.cur) ELSE bc.delivered
       IN
       /\ received' = IF sent
                      THEN [received EXCEPT ![bc.cur] =
                               Deliver(@, [payload |-> bc.msg, tag |-> bc.tag])]
                      ELSE received
       /\ IF bc.idx < Len(list)
          THEN /\ sess' = [sess EXCEPT ![s].bc.idx = bc.idx + 1,
                                       ![s].bc.cur = list[bc.idx + 1],
                                       ![s].bc.failed = failed,
                                       ![s].bc.delivered = delivered,
                                       ![s].bc.attempted = Append(@, list[bc.idx + 1])]
               /\ UNCHANGED <<active_connections, ai_messages, agent_log>>
          ELSE \E insert1 \in In.inserts, insert2 \in In.inserts :
               LET ac == PruneAll(active_connections, failed, room_id)
                   dropped == PruneDrops(active_connections, failed, room_id)
                   st0 == Ev(St(s), [ev |-> "broadcast_end", tag |-> bc.tag])
                   st == AfterBroadcast(st0, ac, supabase_admin_client,
                                        insert1, insert2) IN
               /\ active_connections' = ac
               /\ sess' = [Detach(sess, room_id, dropped, ac) EXCEPT ![s] = st.s]
               /\ ai_messages' = st.table
               /\ agent_log' = st.log
    /\ UNCHANGED <<rooms_table, personal, transport, ep, supabase_admin_client>>

\* the runtime produces a message and calls the registered callback with it
runtime_emits(s, In) ==
    /\ sess[s].pc = "runtime"
    /\ sess[s].n < MaxMsgs
    /\ \E m \in In.msgs, insert \in In.inserts :
         LET role == IF m.sender = "Assistant" THEN "assistant" ELSE "user"
             st0 == Ev([St(s) EXCEPT !.s.n = @ + 1, !.s.msg = m,
                                     !.s.history = Append(@, [role |-> role,
                                                              content |-> m.content])],
                       [ev |-> "callback", k |-> sess[s].n + 1])
             st == CallbackSegment(st0, active_connections, supabase_admin_client, insert) IN
         /\ sess' = [sess EXCEPT ![s] = st.s]
         /\ ai_messages' = st.table
         /\ agent_log' = st.log
    /\ UNCHANGED <<rooms_table, personal, active_connections, transport, ep, received, supabase_admin_client>>

\* UserProxyAgent(max_consecutive_auto_reply=5)
max_consecutive_auto_reply == 5

\* the replies the UserProxy has given without a human input
AutoReplies(history) ==
    Cardinality({i \in DOMAIN history : history[i].role = "user"})

\* the agent whose turn it is: the Assistant answers the prompt and every
\* reply of the UserProxy, the UserProxy answers the Assistant
NextSender(history) ==
    IF history = <<>> \/ history[Len(history)].role = "user"
    THEN "Assistant" ELSE "UserProxy"

\* variant: the UserProxy replies without a limit
MayReplyAlways(history) == TRUE

\* the UserProxy replies only while its consecutive auto-replies are below
\* the maximum it was made with
MayReply(history) ==
    NextSender(history) = "UserProxy" => AutoReplies(history) < max_consecutive_auto_reply

\* a turn of the runtime: the agent whose turn it is produces a message and
\* the registered callback is called with it
runtime_turn(s, In) ==
    /\ sess[s].pc = "runtime"
    /\ MayReply(sess[s].history)
    /\ \E content \in In.contents, insert \in In.inserts :
         LET m == [sender |-> NextSender(sess[s].history), content |-> content]
             role == IF m.sender = "Assistant" THEN "assistant" ELSE "user"
             st0 == Ev([St(s) EXCEPT !.s.n = @ + 1, !.s.msg = m,
                                     !.s.history = Append(@, [role |-> role,
                                                              content |-> m.content])],
                       [ev |-> "callback", k |-> sess[s].n + 1])
             st == CallbackSegment(st0, active_connections, supabase_admin_client, insert) IN
         /\ sess' = [sess EXCEPT ![s] = st.s]
         /\ ai_messages' = st.table
         /\ agent_log' = st.log
    /\ UNCHANGED <<rooms_table, personal, active_connections, transport, ep, received, supabase_admin_client>>

\* str(message_dict)
str(message_dict) ==
    IF message_dict.type = "str" THEN message_dict.value ELSE sReprRoleOnly

\* variant: a dict without a "content" key is stringified too
content_to_process_or_str(message_dict) ==
    IF message_dict.type = "dict" /\ "content" \in DOMAIN message_dict.value
    THEN message_dict.value.content
    ELSE str(message_dict)

\* line 46: message_dict.get("content") if isinstance(message_dict, dict)
\* else str(message_dict)
content_to_process(message_dict) ==
    IF message_dict.type = "dict"
    THEN IF "content" \in DOMAIN message_dict.value
         THEN message_dict.value.content ELSE None
    ELSE str(message_dict)

\* the runtime calls the registered callback with a message_dict of any shape
runtime_passes(s, In) ==
    /\ sess[s].pc = "runtime"
    /\ sess[s].n < MaxMsgs
    /\ \E message_dict \in In.message_dicts, insert \in In.inserts :
         LET m == [sender |-> "Assistant", content |-> content_to_process(message_dict)]
             st0 == Ev([St(s) EXCEPT !.s.n = @ + 1, !.s.msg = m,
                                     !.s.history = Append(@, [role |-> "assistant",
                                                              content |-> m.content,
                                                              message_dict |-> message_dict])],
                       [ev |-> "callback", k |-> sess[s].n + 1])
             st == CallbackSegment(st0, active_connections, supabase_admin_client, insert) IN
         /\ sess' = [sess EXCEPT ![s] = st.s]
         /\ ai_messages' = st.table
         /\ agent_log' = st.log
    /\ UNCHANGED <<rooms_table, personal, active_connections, transport, ep, received, supabase_admin_client>>

\* a_initiate_chat raises
runtime_raises(s, In) ==
    /\ sess[s].pc = "runtime"
    /\ \E insert \in In.inserts :
         LET st == ExceptSegment(St(s), active_connections, supabase_admin_client, insert) IN
         /\ sess' = [sess EXCEPT ![s] = st.s]
         /\ ai_messages' = st.table
         /\ agent_log' = st.log
    /\ UNCHANGED <<rooms_table, personal, active_connections, transport, ep, received, supabase_admin_client>>

\* a_initiate_chat returns
runtime_returns(s) ==
    /\ sess[s].pc = "runtime"
    /\ LET st == FinishSegment(St(s)) IN
         /\ sess' = [sess EXCEPT ![s] = st.s]
         /\ ai_messages' = st.table
         /\ agent_log' = st.log
    /\ UNCHANGED <<rooms_table, personal, active_connections, transport, ep, received, supabase_admin_client>>

Next ==
    \/ \E c \in Conns : websocket_endpoint(c, RelayInputs)
    \/ \E c \in Conns : client_closes(c)
    \/ \E c \in Conns : accept_returns(c)
    \/ \E c \in Conns : accept_raises(c)
    \/ \E c \in Conns : receive_raises(c)
    \/ \E s \in RelayInputs.sessions : run_autogen_chat(s, RelayInputs)
    \/ \E s \in RelayInputs.sessions : send_text_returns(s, RelayInputs)
    \/ \E s \in RelayInputs.sessions : runtime_emits(s, RelayInputs)
    \/ \E s \in RelayInputs.sessions : runtime_raises(s, RelayInputs)
    \/ \E s \in RelayInputs.sessions : runtime_returns(s)

\* a session of one room with one watching client, over every input of a
\* session (the fan-out over several clients and rooms is SpecRegistry's)
Spec == Init /\ [][Next]_vars

NextRegistry ==
    \/ \E c \in Conns : websocket_endpoint(c, RegistryInputs)
    \/ \E c \in Conns : client_closes(c)
    \/ \E c \in Conns : accept_returns(c)
    \/ \E c \in Conns : accept_raises(c)
    \/ \E c \in Conns : receive_raises(c)
    \/ \E s \in RegistryInputs.sessions : run_autogen_chat(s, RegistryInputs)
    \/ \E s \in RegistryInputs.sessions : send_text_returns(s, RegistryInputs)
    \/ \E s \in RegistryInputs.sessions : runtime_emits(s, RegistryInputs)
    \/ \E s \in RegistryInputs.sessions : runtime_raises(s, RegistryInputs)
    \/ \E s \in RegistryInputs.sessions : runtime_returns(s)

\* the registry under the clients of two rooms, with one plain session
SpecRegistry == InitRegistry /\ [][NextRegistry]_vars

\* the chat histories a_initiate_chat may leave in chat_messages: entries with
\* a role and a content that is a str or None
HistoryEntries ==
    [role : {"assistant", "user"},
     content : {sOk, sOkPadded, sTERMINATE, sTermPadded, sEmpty, sBlank, None}]

Histories == UNION {[1..n -> HistoryEntries] : n \in 0..MaxHist}

\* run_autogen_chat("hi", "r1") up to the await of a_initiate_chat, with the
\* store available, the real key and nobody connected
AwaitingRuntime ==
    StartSegment([s |-> [IdleSession EXCEPT !.room_id = "r1", !.user_prompt = sHi,
                                            !.api_key = get_llm_config(REAL_KEY)],
                  table |-> <<>>, log |-> [r \in Rooms |-> <<>>]],
                 <<>>, Client, "data", "data")

\* a session at the return of a_initiate_chat, with any chat history (the
\* scan reads nothing but the history, so what the callback did with the
\* messages is left out)
InitScan ==
    /\ active_connections = <<>>
    /\ transport = [c \in Conns |-> "new"]
    /\ ep = [c \in Conns |-> [pc |-> "idle", room_id |-> ""]]
    /\ received = [c \in Conns |-> <<>>]
    /\ supabase_admin_client = Client
    /\ ai_messages = AwaitingRuntime.table
    /\ agent_log = AwaitingRuntime.log
    /\ personal = [c \in Conns |-> NoPersonal]
    /\ rooms_table = <<>>
    /\ \E history \in Histories :
          sess = [s \in Sessions |->
                     IF s \in RelayInputs.sessions
                     THEN [AwaitingRuntime.s EXCEPT !.history = history, !.n = Len(history)]
                     ELSE IdleSession]

NextScan == \E s \in RelayInputs.sessions : runtime_returns(s)

\* the scan of lines 114-121 and the return value, over every chat history
SpecScan == InitScan /\ [][NextScan]_vars

NextTasks ==
    \/ \E c \in Conns : websocket_endpoint(c, TaskInputs)
    \/ \E c \in Conns : accept_returns(c)
    \/ \E s \in TaskInputs.sessions : create_task_api_endpoint(s, TaskInputs)
    \/ \E s \in TaskInputs.sessions : send_text_returns(s, TaskInputs)
    \/ \E s \in TaskInputs.sessions : runtime_emits(s, TaskInputs)
    \/ \E s \in TaskInputs.sessions : runtime_raises(s, TaskInputs)
    \/ \E s \in TaskInputs.sessions : runtime_returns(s)

\* two task requests and the sessions they start
SpecTasks == Init /\ [][NextTasks]_vars

\* the steps of a room whose client and runtime can fail
NextRoomA ==
    \/ \E c \in RoomAInputs.conns : websocket_endpoint(c, RoomAInputs)
    \/ \E c \in RoomAInputs.conns : client_closes(c)
    \/ \E c \in RoomAInputs.conns : accept_returns(c)
    \/ \E c \in RoomAInputs.conns : receive_raises(c)
    \/ \E s \in RoomAInputs.sessions : run_autogen_chat(s, RoomAInputs)
    \/ \E s \in RoomAInputs.sessions : send_text_returns(s, RoomAInputs)
    \/ \E s \in RoomAInputs.sessions : runtime_emits(s, RoomAInputs)
    \/ \E s \in RoomAInputs.sessions : runtime_raises(s, RoomAInputs)
    \/ \E s \in RoomAInputs.sessions : runtime_returns(s)

\* the steps of a room whose client stays and whose runtime returns
NextRoomB ==
    \/ \E c \in RoomBInputs.conns : websocket_endpoint(c, RoomBInputs)
    \/ \E c \in RoomBInputs.conns : accept_returns(c)
    \/ \E s \in RoomBInputs.sessions : run_autogen_chat(s, RoomBInputs)
    \/ \E s \in RoomBInputs.sessions : send_text_returns(s, RoomBInputs)
    \/ \E s \in RoomBInputs.sessions : runtime_emits(s, RoomBInputs)
    \/ \E s \in RoomBInputs.sessions : runtime_returns(s)

NextRooms == NextRoomA \/ NextRoomB

\* two rooms, each with a session and a client, interleaved at every
\* suspension point
SpecRooms == InitRegistry /\ [][NextRooms]_vars

NextLazy ==
    \/ \E c \in LazyInputs.conns : websocket_endpoint(c, LazyInputs)
    \/ \E c \in LazyInputs.conns : client_closes(c)
    \/ \E c \in LazyInputs.conns : accept_returns(c)
    \/ \E c \in LazyInputs.conns : accept_raises(c)
    \/ \E c \in LazyInputs.conns : receive_raises(c)
    \/ \E s \in LazyInputs.sessions : run_autogen_chat(s, LazyInputs)
    \/ \E s \in LazyInputs.sessions : send_text_returns(s, LazyInputs)
    \/ \E s \in LazyInputs.sessions : runtime_raises(s, LazyInputs)

\* the event loop runs every task that is ready: an accept or a
\* receive_text of a closed transport raises, and a send_text that was
\* awaited completes
FairnessLazy ==
    /\ \A c \in LazyInputs.conns : WF_vars(accept_raises(c))
    /\ \A c \in LazyInputs.conns : WF_vars(receive_raises(c))
    /\ \A s \in LazyInputs.sessions : WF_vars(send_text_returns(s, LazyInputs))

\* the clients of a room that come and go under a session, with an event
\* loop that runs what is ready
FairLazy == InitRegistry /\ [][NextLazy]_vars /\ FairnessLazy

NextTurns ==
    \/ \E c \in TurnInputs.conns : websocket_endpoint(c, TurnInputs)
    \/ \E c \in TurnInputs.conns : client_closes(c)
    \/ \E c \in TurnInputs.conns : accept_returns(c)
    \/ \E c \in TurnInputs.conns : receive_raises(c)
    \/ \E s \in TurnInputs.sessions : run_autogen_chat(s, TurnInputs)
    \/ \E s \in TurnInputs.sessions : send_text_returns(s, TurnInputs)
    \/ \E s \in TurnInputs.sessions : runtime_turn(s, TurnInputs)
    \/ \E s \in TurnInputs.sessions : runtime_raises(s, TurnInputs)
    \/ \E s \in TurnInputs.sessions : runtime_returns(s)

\* every awaited send_text completes, and a_initiate_chat does not hang: it
\* returns or raises once the agents have no turn left
FairnessTurns ==
    \A s \in TurnInputs.sessions :
        /\ WF_vars(send_text_returns(s, TurnInputs))
        /\ WF_vars(runtime_returns(s) \/ runtime_raises(s, TurnInputs))

\* a session over a runtime of two agents that answer each other, the
\* UserProxy at most max_consecutive_auto_reply times, with a store whose
\* appends complete
FairTurns == InitRegistry /\ [][NextTurns]_vars /\ FairnessTurns

NextShapes ==
    \/ \E c \in ShapeInputs.conns : websocket_endpoint(c, ShapeInputs)
    \/ \E c \in ShapeInputs.conns : accept_returns(c)
    \/ \E s \in ShapeInputs.sessions : run_autogen_chat(s, ShapeInputs)
    \/ \E s \in ShapeInputs.sessions : send_text_returns(s, ShapeInputs)
    \/ \E s \in ShapeInputs.sessions : runtime_passes(s, ShapeInputs)
    \/ \E s \in ShapeInputs.sessions : runtime_returns(s)

\* the callback over every shape of message_dict
SpecShapes == InitRegistry /\ [][NextShapes]_vars

NextBroadcast ==
    \/ \E c \in BroadcastInputs.conns : websocket_endpoint(c, BroadcastInputs)
    \/ \E c \in BroadcastInputs.conns : client_closes(c)
    \/ \E c \in BroadcastInputs.conns : accept_returns(c)
    \/ \E s \in BroadcastInputs.sessions : broadcast_to_room(s, BroadcastInputs)
    \/ \E s \in BroadcastInputs.sessions : send_text_returns(s, BroadcastInputs)

\* broadcast_to_room under its callers and the clients of a room
SpecBroadcast == InitRegistry /\ [][NextBroadcast]_vars

NextPersonal ==
    \/ \E c \in Conns : websocket_endpoint(c, RegistryInputs)
    \/ \E c \in Conns : client_closes(c)
    \/ \E c \in Conns : accept_returns(c)
    \/ \E c \in Conns : accept_raises(c)
    \/ \E c \in Conns : receive_raises(c)
    \/ \E c \in Conns : personal_message(c)

\* send_personal_message called for the WebSockets of the clients
SpecPersonal == InitRegistry /\ [][NextPersonal]_vars

NextClassify ==
    \/ \E c \in Conns : websocket_endpoint(c, ClassifyInputs)
    \/ \E c \in Conns : accept_returns(c)
    \/ \E s \in ClassifyInputs.sessions : run_autogen_chat(s, ClassifyInputs)
    \/ \E s \in ClassifyInputs.sessions : send_text_returns(s, ClassifyInputs)
    \/ \E s \in ClassifyInputs.sessions : runtime_emits(s, ClassifyInputs)
    \/ \E s \in ClassifyInputs.sessions : runtime_returns(s)

\* the callback over every kind of content
SpecClassify == InitRegistry /\ [][NextClassify]_vars

\* ------------------------------------------------------------ claims
\* the step in which the broadcast_to_room call of session s returns after
\* it was suspended in a send
BroadcastReturns(s) ==
    /\ sess[s].pc \in BcPcs
    /\ Len(sess'[s].trace) > Len(sess[s].trace)

\* the connections the returning call has sent the message to, with the send
\* that was pending
DeliveredAtReturn(s) ==
    IF transport[sess[s].bc.cur] = "open"
    THEN Append(sess[s].bc.delivered, sess[s].bc.cur)
    ELSE sess[s].bc.delivered

Count(list, x) == Cardinality({i \in 1..Len(list) : list[i] = x})

\* C1: no room id is a key of active_connections with an empty list.
C1_NoEmptyRoomEntry ==
    \A room_id \in DOMAIN active_connections : active_connections[room_id] # <<>>

\* C2: a disconnect for a connection that is not in the room's live list
\* leaves the registry, its keys included, as it was: whenever the endpoint
\* of a WebSocket is about to call disconnect for a WebSocket that is not in
\* the list of its room, the call returns the registry it was given.
C2_DisconnectIdempotent ==
    \A c \in Conns :
        (/\ ep[c].pc = "receiving" /\ transport[c] = "closed"
         /\ c \notin Live(active_connections, ep[c].room_id))
        => disconnect(active_connections, c, ep[c].room_id) = active_connections

\* C3: a broadcast starts exactly one send to every connection that is in the
\* room's live list from the call to the return of broadcast_to_room.
C3_SnapshotDelivery ==
    [][\A s \in Sessions :
          BroadcastReturns(s) =>
              \A c \in sess[s].bc.stable : Count(sess[s].bc.attempted, c) = 1]_vars

\* C4: when the sends to the connections F of the live list fail and those to
\* the others succeed, then at the return of the one broadcast_to_room call
\* every connection not in F was sent the message exactly once and is still
\* in the live list, and no connection of F is in it.
C4_BroadcastSelfHeals ==
    [][\A s \in Sessions :
          (BroadcastReturns(s) /\ sess[s].bc.steady) =>
              LET snap == Range(sess[s].bc.snap)
                  F == {c \in snap : transport[c] = "closed"}
                  live == Live(active_connections', sess[s].room_id) IN
              /\ \A c \in snap \ F : Count(DeliveredAtReturn(s), c) = 1
              /\ \A c \in snap \ F : c \in live
              /\ \A c \in F : c \notin live]_vars

\* the events of a session, in the order run_autogen_chat went through them
Trace(s) == sess[s].trace

\* event i of session s is the event ev of the message tag
At(s, i, ev, tag) == Trace(s)[i].ev = ev /\ Trace(s)[i].tag = tag

\* the events i of session s that are the event ev of the message tag
Events(s, ev, tag) == {i \in 1..Len(Trace(s)) : At(s, i, ev, tag)}

\* the broadcast of the message was called and returned and then its append
\* was awaited, all before event i
HandledBefore(s, i, tag) ==
    \E a \in Events(s, "broadcast", tag), b \in Events(s, "broadcast_end", tag),
       c \in Events(s, "append", tag) :
        a < b /\ b < c /\ c < i

\* C5: the rows appended for the ordinary messages M1..Mn of a session are in
\* the table in the order M1..Mn, and when the callback starts on a message
\* every earlier ordinary message was broadcast and then appended.
C5_MessagesHandledInOrder ==
    /\ \A i, j \in 1..Len(ai_messages) :
          (/\ i < j
           /\ ai_messages[i].tag.src = "message"
           /\ ai_messages[j].tag.src = "message")
          => ai_messages[i].tag.k < ai_messages[j].tag.k
    /\ \A s \in Sessions : \A i \in 1..Len(Trace(s)) :
          Trace(s)[i].ev = "callback" =>
              \A m \in 1..(Trace(s)[i].k - 1) :
                  IsOrdinary(sess[s].history[m].content)
                  => HandledBefore(s, i, Tag("message", m))

\* a session was given two ordinary messages and both are in the table
C5_Witness ==
    \E i, j \in 1..Len(ai_messages) :
        /\ ai_messages[i].tag = Tag("message", 1)
        /\ ai_messages[j].tag = Tag("message", 2)

IsSessionMessage(item) == item.tag.src \in {"prompt", "message", "terminate"}

\* C6: a connection receives the messages of the room's session in the order
\* the session produced them (the prompt, then M1, M2, ...).
C6_ConnectionSeesSessionOrder ==
    \A c \in Conns : \A i, j \in 1..Len(received[c]) :
        (i < j /\ IsSessionMessage(received[c][i]) /\ IsSessionMessage(received[c][j]))
        => received[c][i].tag.k < received[c][j].tag.k

\* a connection received the prompt and two messages while the other
\* connection of its room was pruned or disconnected
C6_Witness ==
    \E c, d \in Conns :
        /\ c # d
        /\ ep[d].room_id = ep[c].room_id /\ ep[d].pc = "done" /\ received[d] # <<>>
        /\ Len(received[c]) >= 3
        /\ received[c][1].tag = Tag("prompt", 0)
        /\ received[c][3].tag = Tag("message", 2)

\* C7: no row of the table has a content that is "TERMINATE" after trimming
\* and upper-casing.
C7_SentinelNeverStored ==
    \A i \in 1..Len(ai_messages) :
        upper(strip(ai_messages[i].data.content)) # sTERMINATE

C9_OneLogRecordEveryOutcome ==
    \A s \in Sessions :
        sess[s].pc = "returned" => Len(agent_log[sess[s].room_id]) = 1

\* C9, amended: a session that returned TERMINATED has appended exactly one
\* record, with the prompt and the captured reply or the placeholder, to the
\* log of its room; a session that returned FAILED has appended none.
C9_LogOnlyWhenTerminated ==
    \A s \in Sessions :
        /\ (sess[s].pc = "returned" /\ sess[s].outcome = "TERMINATED") =>
              agent_log[sess[s].room_id] =
                  << LogEntry(sess[s].user_prompt, sess[s].ret) >>
        /\ (sess[s].pc = "returned" /\ sess[s].outcome = "FAILED") =>
              agent_log[sess[s].room_id] = <<>>

\* a session returned TERMINATED without a captured reply
C9_Witness ==
    \E s \in Sessions :
        /\ sess[s].pc = "returned" /\ sess[s].outcome = "TERMINATED"
        /\ sess[s].ret = None /\ sess[s].n > 0

\* the append of the prompt, and the return of its broadcast, precede event i
PromptDoneBefore(s, i) ==
    \E a \in Events(s, "append", Tag("prompt", 0)),
       b \in Events(s, "broadcast_end", Tag("prompt", 0)) :
        a < b /\ b < i

AppendFailed(s, i) ==
    /\ Trace(s)[i].ev = "append" /\ Trace(s)[i].tag.src = "message"
    /\ Trace(s)[i].error /\ ~Trace(s)[i].raised

\* C11: when the append of an ordinary message returns an error, the
\* broadcast of that message was called and has returned before, the append
\* is the only one made for the message, the next thing the callback does is
\* one broadcast of the System notice, and after it the callback returns to
\* the runtime, which goes on (the session is not ended by it).
C11_AppendErrorNoticeAndGoOn ==
    \A s \in Sessions : \A i \in 1..Len(Trace(s)) :
        AppendFailed(s, i) =>
            LET k == Trace(s)[i].tag.k
                n == Len(Trace(s)) IN
            /\ \E a \in Events(s, "broadcast", Tag("message", k)),
                  b \in Events(s, "broadcast_end", Tag("message", k)) :
                   a < b /\ b < i
            /\ Events(s, "append", Tag("message", k)) = {i}
            /\ Events(s, "broadcast", Tag("db_error", k)) = {i + 1}
            /\ IF n = i + 1
               THEN sess[s].pc = "bc_dberr" /\ sess[s].msg.content # None
               ELSE /\ n >= i + 3
                    /\ At(s, i + 2, "broadcast_end", Tag("db_error", k))
                    /\ Trace(s)[i + 3] = [ev |-> "callback_end", k |-> k]
                    /\ n = i + 3 => sess[s].pc = "runtime"

\* the append of message 1 returned an error, the client was sent message 1
\* and the notice, and the callback has been called with message 2
C11_Witness ==
    \E s \in Sessions : \E i, j \in 1..Len(Trace(s)) :
        /\ AppendFailed(s, i) /\ Trace(s)[i].tag.k = 1
        /\ i < j /\ At(s, j, "broadcast", Tag("message", 2))
        /\ \E c \in Conns : \E x, y \in 1..Len(received[c]) :
              /\ x < y
              /\ received[c][x].tag = Tag("message", 1)
              /\ received[c][y].tag = Tag("db_error", 1)
              /\ received[c][y].payload.agent = "System"

\* the rows of the table that came from the message tag
Rows(tag) == {i \in 1..Len(ai_messages) : ai_messages[i].tag = tag}

\* C12: a session whose runtime raised has, when it returns, broadcast the
\* System error notice once, then made one append of the error-tagged record
\* (the row is in the table once when the store took it), then returned
\* None; the runtime was invoked once.  While the notice is being sent the
\* record is not appended yet.
C12_RuntimeFailureHandledOnce ==
    \A s \in Sessions :
        LET tag == Tag("autogen_error", 0)
            n == Len(Trace(s)) IN
        /\ sess[s].pc = "bc_fail" =>
              /\ Events(s, "broadcast", tag) = {n}
              /\ Events(s, "append", tag) = {} /\ Rows(tag) = {}
              /\ Cardinality({i \in 1..n : Trace(s)[i].ev = "runtime"}) = 1
        /\ (sess[s].pc = "returned" /\ sess[s].outcome = "FAILED") =>
              /\ n >= 3
              /\ Events(s, "broadcast", tag) = {n - 2}
              /\ Events(s, "broadcast_end", tag) = {n - 1}
              /\ Events(s, "append", tag) = {n}
              /\ Cardinality(Rows(tag)) <= 1
              /\ ~Trace(s)[n].error =>
                    \E i \in Rows(tag) :
                        ai_messages[i].data = AutogenErrorRecord(sess[s].room_id)
              /\ sess[s].ret = None
              /\ Cardinality({i \in 1..n : Trace(s)[i].ev = "runtime"}) = 1

\* the runtime raised after a message, the client was sent the notice, the
\* error record is the last row of the table and the session returned None
C12_Witness ==
    \E s \in Sessions :
        /\ sess[s].pc = "returned" /\ sess[s].outcome = "FAILED" /\ sess[s].n > 0
        /\ ai_messages # <<>>
        /\ ai_messages[Len(ai_messages)].data = AutogenErrorRecord(sess[s].room_id)
        /\ \E c \in Conns : \E x \in 1..Len(received[c]) :
              received[c][x].payload = WithTimestamp(AutogenErrorPayload)

\* the entry is one of the responding agent with a content that, trimmed, is
\* neither empty nor the sentinel in any letter case
Qualifies(entry) ==
    /\ entry.role = "assistant"
    /\ entry.content # None
    /\ strip(entry.content) # <<>>
    /\ upper(strip(entry.content)) # sTERMINATE

\* C13: a session that ended TERMINATED returns the trimmed content of the
\* first entry of the history that qualifies, and None when no entry does;
\* the history ["ok", "TERMINATE"] gives "ok" and ["", "TERMINATE"] gives None.
C13_FirstReplyExtraction ==
    /\ \A s \in Sessions :
          (sess[s].pc = "returned" /\ sess[s].outcome = "TERMINATED") =>
              LET history == sess[s].history
                  Q == {i \in 1..Len(history) : Qualifies(history[i])} IN
              IF Q = {} THEN sess[s].ret = None
              ELSE \E i \in Q : /\ \A j \in Q : i <= j
                                /\ sess[s].ret = strip(history[i].content)
    /\ FirstAssistantResponse(<<[role |-> "assistant", content |-> sOk],
                                [role |-> "assistant", content |-> sTERMINATE]>>) = sOk
    /\ FirstAssistantResponse(<<[role |-> "assistant", content |-> sEmpty],
                                [role |-> "assistant", content |-> sTERMINATE]>>) = None

\* the session returned "ok" for a history whose first entry is the sentinel
\* and whose second is " ok "
C13_Witness ==
    \E s \in Sessions :
        /\ sess[s].pc = "returned" /\ sess[s].outcome = "TERMINATED"
        /\ Len(sess[s].history) = 2
        /\ sess[s].history[1] = [role |-> "assistant", content |-> sTermPadded]
        /\ sess[s].history[2] = [role |-> "assistant", content |-> sOkPadded]
        /\ sess[s].ret = sOk

\* the step in which the endpoint of c calls disconnect(c, room_id)
EndpointDisconnects(c) == ep[c].pc = "receiving" /\ ep'[c].pc = "done"

\* C14: when the endpoint disconnects a connection c that is in the live
\* list of its room, the room id is no key of the registry afterwards if c
\* was the only connection of the list, and otherwise the room keeps an
\* entry with exactly the other connections, in their order.
C14_RoomCleanup ==
    [][\A c \in Conns :
          (EndpointDisconnects(c) /\ c \in Live(active_connections, ep[c].room_id)) =>
              LET room_id == ep[c].room_id
                  list == active_connections[room_id] IN
              IF Len(list) = 1
              THEN room_id \notin DOMAIN active_connections'
              ELSE /\ room_id \in DOMAIN active_connections'
                   /\ active_connections'[room_id] = SelectSeq(list, LAMBDA x : x # c)
                   /\ Range(active_connections'[room_id]) = Range(list) \ {c}]_vars

\* two connections of one room were both sent the prompt by the only
\* broadcast made (so neither was pruned), then their endpoints disconnected
\* them, the first from a list of two, and the room has no entry
C14_Witness ==
    /\ \A s \in Sessions : sess[s].pc \in {"idle", "runtime"} /\ sess[s].n = 0
    /\ \E c, d \in Conns :
          /\ c # d /\ ep[c].room_id = ep[d].room_id
          /\ received[c] # <<>> /\ received[d] # <<>>
          /\ ep[c].pc = "done" /\ ep[d].pc = "done"
          /\ ep[c].room_id \notin DOMAIN active_connections

\* no WebSocket has been registered for the room of session s so far
NobodyAttached(s) ==
    \A c \in Conns : ep[c].pc \in {"idle", "accepting"} \/ ep[c].room_id # sess[s].room_id

\* what holds of a session while nobody has been attached to its room
SessionWithoutAudience(s) ==
    LET n == Len(Trace(s)) IN
    /\ sess[s].pc \notin BcPcs
    /\ \A i \in 1..n :
          Trace(s)[i].ev = "broadcast" =>
              /\ i < n
              /\ Trace(s)[i + 1] = [ev |-> "broadcast_end", tag |-> Trace(s)[i].tag]
    /\ \A c \in Conns : ep[c].room_id \in {"", sess[s].room_id} => received[c] = <<>>
    /\ \A i \in 1..n :
          (Trace(s)[i].ev = "callback_end" /\ IsOrdinary(sess[s].history[Trace(s)[i].k].content)) =>
              LET tag == Tag("message", Trace(s)[i].k) IN
              \E a \in 1..(i - 1) :
                  /\ Events(s, "append", tag) = {a}
                  /\ ~Trace(s)[a].error =>
                        \E r \in Rows(tag) :
                            ai_messages[r].data =
                                MessageRecord(sess[s].room_id,
                                              ai_messages[r].data.agent_name,
                                              sess[s].history[Trace(s)[i].k].content)
    /\ sess[s].pc = "raised" => ClientRaises(supabase_admin_client)
    /\ sess[s].outcome = "FAILED" => \E i \in 1..n : At(s, i, "broadcast", Tag("autogen_error", 0))
    /\ (sess[s].pc = "returned" /\ sess[s].outcome = "TERMINATED") =>
          agent_log[sess[s].room_id] = << LogEntry(sess[s].user_prompt, sess[s].ret) >>

FailedAtReturn(s) ==
    Range(sess[s].bc.failed) \cup
        (IF transport[sess[s].bc.cur] = "open" THEN {} ELSE {sess[s].bc.cur})

\* the registry ac with the connections F pruned from the room, and nothing
\* else done to it
OnlyPruned(ac, F, room_id) ==
    IF room_id \notin DOMAIN ac THEN ac
    ELSE LET list == SelectSeq(ac[room_id], LAMBDA x : x \notin F) IN
         IF list = <<>> /\ ac[room_id] # <<>> THEN DelItem(ac, room_id)
         ELSE [ac EXCEPT ![room_id] = list]

\* C16: whatever sends of a broadcast fail, broadcast_to_room returns to its
\* caller, which goes on, and all the call has done about the failed sends
\* is to prune the failing connections: the registry at the return is the
\* registry before it without them, and they were sent nothing.
C16_FailedSendOnlyPrunes ==
    [][\A s \in Sessions :
          BroadcastReturns(s) =>
              /\ sess'[s].pc # "raised"
              /\ active_connections' =
                    OnlyPruned(active_connections, FailedAtReturn(s), sess[s].room_id)
              /\ \A c \in FailedAtReturn(s) \ Range(sess[s].bc.delivered) :
                    received'[c] = received[c]]_vars

\* the messages the relay both appends and broadcasts
IsRelayed(tag) == tag.src \in {"prompt", "message", "autogen_error"}

\* C17: for the prompt, every ordinary message and the runtime-failure
\* notice, an append that returned an error or raised has not kept the
\* message from being broadcast, and a broadcast that has returned, whatever
\* its sends did, has not kept the message from being appended.
C17_SinksFailIndependently ==
    \A s \in Sessions : \A i \in 1..Len(Trace(s)) :
        /\ (/\ Trace(s)[i].ev = "append" /\ IsRelayed(Trace(s)[i].tag)
            /\ \/ Trace(s)[i].raised
               \/ "error" \in DOMAIN Trace(s)[i] /\ Trace(s)[i].error)
           => Events(s, "broadcast", Trace(s)[i].tag) # {}
        /\ (Trace(s)[i].ev = "broadcast_end" /\ IsRelayed(Trace(s)[i].tag))
           => Events(s, "append", Trace(s)[i].tag) # {}

\* the rooms in whose live list the connection is
RoomsOf(ac, c) == {room_id \in DOMAIN ac : InList(c, ac[room_id])}

\* C18: a connection is in the live list of at most one room, once, and
\* that room is the one its endpoint was opened for; a connection enters a
\* live list only in the step in which its accept returns, a step its
\* endpoint takes once, so a connection that was removed from the registry,
\* by its endpoint or by the pruning of a broadcast, is in no live list again.
C18_OneRoomNeverReused ==
    /\ [](\A c \in Conns :
            /\ Cardinality(RoomsOf(active_connections, c)) <= 1
            /\ \A room_id \in RoomsOf(active_connections, c) :
                  /\ Count(active_connections[room_id], c) = 1
                  /\ ep[c].pc = "receiving" /\ ep[c].room_id = room_id)
    /\ [][\A c \in Conns :
            /\ (RoomsOf(active_connections, c) = {} /\ RoomsOf(active_connections', c) # {})
               => (ep[c].pc = "accepting" /\ ep'[c].pc = "receiving")
            /\ ep'[c].pc = "accepting" => ep[c].pc \in {"idle", "accepting"}
            /\ ep[c].pc = "done" => ep'[c].pc = "done"]_vars

\* a connection was pruned by a broadcast, its endpoint still waiting in
\* receive_text, while the other connection is in the live list of the
\* other room
C18_Witness ==
    \E c, d \in Conns :
        /\ ep[c].pc = "receiving" /\ RoomsOf(active_connections, c) = {}
        /\ RoomsOf(active_connections, d) = {ep[d].room_id}
        /\ ep[d].room_id # ep[c].room_id

\* the step is a call of send_personal_message for c
PersonalCall(c) == personal'[c].calls = personal[c].calls + 1

\* C19: a send_personal_message call whose send failed has returned
\* something else than a call whose send went through.
C19_FailureSignalled ==
    \A c, d \in Conns :
        (/\ personal[c].calls > 0 /\ ~personal[c].sent
         /\ personal[d].calls > 0 /\ personal[d].sent)
        => personal[c].ret # personal[d].ret

\* C19, amended: send_personal_message makes one send; it returns None when
\* the send went through and when it failed (the failure is only printed);
\* the client is sent the one text or, when the send failed, nothing; and
\* the registry is left as it was in both cases.
C19_SingleSendNoSignal ==
    /\ [](\A c \in Conns : personal[c].calls > 0 => personal[c].ret = None)
    /\ [][\A c \in Conns :
            PersonalCall(c) =>
                /\ active_connections' = active_connections
                /\ personal'[c].sent = (transport[c] = "open")
                /\ IF personal'[c].sent
                   THEN /\ Len(received'[c]) = Len(received[c]) + 1
                        /\ received'[c][Len(received'[c])].payload = [echo_reply |-> sHi]
                   ELSE received'[c] = received[c]
                /\ \A d \in Conns \ {c} : received'[d] = received[d]]_vars

\* a call for a closed connection has failed and left it in the live list of
\* its room, and a call for the other connection went through
C19_Witness ==
    \E c, d \in Conns :
        /\ personal[c].calls > 0 /\ ~personal[c].sent
        /\ RoomsOf(active_connections, c) = {ep[c].room_id}
        /\ personal[d].calls > 0 /\ personal[d].sent /\ received[d] # <<>>

\* what the callback did with message k of session s, whose callback has
\* returned: the events of the message between its call and its return
Did(s, k, ev, src) == Events(s, ev, Tag(src, k)) # {}

TreatedAsTermination(s, k) ==
    /\ Did(s, k, "broadcast", "terminate")
    /\ ~Did(s, k, "broadcast", "message") /\ ~Did(s, k, "append", "message")

TreatedAsOrdinary(s, k) ==
    /\ Did(s, k, "broadcast", "message") /\ Did(s, k, "append", "message")
    /\ ~Did(s, k, "broadcast", "terminate")

Ignored(s, k) ==
    /\ ~Did(s, k, "broadcast", "message") /\ ~Did(s, k, "append", "message")
    /\ ~Did(s, k, "broadcast", "terminate")

\* the content, trimmed, is the sentinel in some letter case
IsSentinel(content) == content # None /\ upper(strip(content)) = sTERMINATE

\* the content is absent, empty or whitespace only
IsVoid(content) == content = None \/ \A i \in 1..Len(content) : IsSpace(content[i])

\* C20: the callback treats a message as a termination event iff its
\* trimmed content is "TERMINATE" in some letter case, ignores it iff its
\* content is absent, empty or whitespace only, and treats it as an ordinary
\* message otherwise; "terminate later" and "done TERMINATE" are ordinary.
C20_ThreeClasses ==
    \A s \in Sessions : \A i \in 1..Len(Trace(s)) :
        Trace(s)[i].ev = "callback_end" =>
            LET k == Trace(s)[i].k
                content == sess[s].history[k].content IN
            /\ TreatedAsTermination(s, k) <=> IsSentinel(content)
            /\ Ignored(s, k) <=> IsVoid(content)
            /\ TreatedAsOrdinary(s, k) <=> (~IsSentinel(content) /\ ~IsVoid(content))
            /\ content \in {sTerminateLater, sDoneTERMINATE} => TreatedAsOrdinary(s, k)

\* the callback has treated "Terminate\n" as a termination event and then
\* "done TERMINATE" as an ordinary message
C20_Witness ==
    \E s \in Sessions :
        /\ Len(sess[s].history) = 2 /\ sess[s].pc = "runtime"
        /\ sess[s].history[1].content = sTermNewline
        /\ sess[s].history[2].content = sDoneTERMINATE
        /\ TreatedAsTermination(s, 1) /\ TreatedAsOrdinary(s, 2)

\* the name of the agent whose message entry k of the history is
SenderOf(s, k) == IF sess[s].history[k].role = "assistant" THEN "Assistant" ELSE "UserProxy"

\* what the clients were sent of the message tag
ReceivedOf(tag) ==
    UNION {{received[c][i].payload :
               i \in {j \in 1..Len(received[c]) : received[c][j].tag = tag}} :
           c \in Conns}

\* C21: when the callback has returned from a termination event it has
\* made one broadcast, of {agent, event: "TERMINATE", message: "<agent> has
\* finished."} (with the timestamp of the broadcast), and no append; when it
\* has returned from an ordinary message it has made one broadcast of
\* {agent, message: content} and, after that returned, one append of a
\* record with the room_id, the agent_name and the content.
C21_OneBroadcastPerMessage ==
    \A s \in Sessions : \A i \in 1..Len(Trace(s)) :
        Trace(s)[i].ev = "callback_end" =>
            LET k == Trace(s)[i].k
                content == sess[s].history[k].content
                agent == SenderOf(s, k)
                msg == Tag("message", k)
                term == Tag("terminate", k) IN
            /\ IsSentinel(content) =>
                  /\ Cardinality(Events(s, "broadcast", term)) = 1
                  /\ Events(s, "broadcast", msg) = {}
                  /\ Events(s, "append", msg) = {} /\ Events(s, "append", term) = {}
                  /\ Rows(msg) = {} /\ Rows(term) = {}
                  /\ ReceivedOf(term) \subseteq
                        {[agent |-> agent, event |-> "TERMINATE",
                          message |-> <<agent, " has finished.">>, timestamp |-> "now"]}
            /\ (~IsSentinel(content) /\ ~IsVoid(content)) =>
                  /\ Cardinality(Events(s, "broadcast", msg)) = 1
                  /\ Cardinality(Events(s, "append", msg)) = 1
                  /\ Events(s, "broadcast", term) = {}
                  /\ \E a \in Events(s, "broadcast", msg),
                        b \in Events(s, "broadcast_end", msg),
                        c \in Events(s, "append", msg) : a < b /\ b < c
                  /\ ReceivedOf(msg) \subseteq
                        {[agent |-> agent, message |-> content, timestamp |-> "now"]}
                  /\ Cardinality(Rows(msg)) <= 1
                  /\ \A r \in Rows(msg) :
                        /\ ai_messages[r].data.room_id = sess[s].room_id
                        /\ ai_messages[r].data.agent_name = agent
                        /\ ai_messages[r].data.content = content

\* a client was sent an ordinary message, which is in the table, and then
\* the TERMINATE event of the next message, of which the table has nothing
C21_Witness ==
    \E s \in Sessions :
        /\ sess[s].pc = "runtime" /\ sess[s].n = 2
        /\ IsSentinel(sess[s].history[2].content)
        /\ ReceivedOf(Tag("message", 1)) # {} /\ Rows(Tag("message", 1)) # {}
        /\ ReceivedOf(Tag("terminate", 2)) # {}
        /\ \A p \in ReceivedOf(Tag("terminate", 2)) : p.event = "TERMINATE"

\* the step in which the runtime calls the callback of session s with a
\* message
CallbackCalled(s) == sess'[s].n = sess[s].n + 1

\* C22: the callback drops a message whose content is empty or whitespace
\* only (or absent): the call returns at once to the runtime, with no
\* broadcast and no append, and leaves the registry, what the clients were
\* sent, the table and the log as they were.
C22_VoidMessageDropped ==
    [][\A s \in Sessions :
          (CallbackCalled(s) /\ IsVoid(sess'[s].history[sess'[s].n].content)) =>
              /\ sess'[s].trace = sess[s].trace \o
                    <<[ev |-> "callback", k |-> sess'[s].n],
                      [ev |-> "callback_end", k |-> sess'[s].n]>>
              /\ sess'[s].pc = "runtime"
              /\ active_connections' = active_connections
              /\ received' = received
              /\ ai_messages' = ai_messages
              /\ agent_log' = agent_log]_vars

\* with a client in the room, the callback was called with a whitespace-only
\* message and then with an empty one, and the client was sent the prompt only
C22_Witness ==
    \E s \in Sessions :
        /\ sess[s].pc = "runtime" /\ sess[s].n = 2
        /\ sess[s].history[1].content = sWhitespace
        /\ sess[s].history[2].content = sEmpty
        /\ \E c \in Conns :
              /\ RoomsOf(active_connections, c) = {sess[s].room_id}
              /\ Len(received[c]) = 1 /\ received[c][1].tag = Tag("prompt", 0)

\* run_autogen_chat of session s has been called and has not ended
Running(s) == sess[s].pc \in BcPcs \cup {"runtime"}

\* C23: no two running sessions have the same room id.
C23_OneSessionPerRoom ==
    \A s1, s2 \in Sessions :
        (s1 # s2 /\ Running(s1) /\ Running(s2)) => sess[s1].room_id # sess[s2].room_id

\* all there is of a room: its entry in the registry, what the clients of
\* its endpoints were sent and where those endpoints are, its rows of the
\* table, its sessions (with their return values) and its log
OfRoom(room_id, ac, tr, e, rcv, table, log, ss) ==
    [entry |-> IF room_id \in DOMAIN ac THEN <<ac[room_id]>> ELSE <<>>,
     clients |-> [c \in {d \in Conns : e[d].room_id = room_id} |->
                     [ep |-> e[c], transport |-> tr[c], received |-> rcv[c]]],
     rows |-> SelectSeq(table, LAMBDA row : row.data.room_id = room_id),
     log |-> log[room_id],
     sessions |-> [s \in {x \in Sessions : ss[x].room_id = room_id} |-> ss[s]]]

\* the step is one of session s, or of the endpoint or the client of c
SessionActs(s) == sess'[s] # sess[s]
ConnActs(c) == ep'[c] # ep[c] \/ transport'[c] # transport[c]

\* C24: a step of a session, an endpoint or a client of another room, be it
\* a message, a runtime exception, a closed client or a failed send, leaves
\* all there is of a room as it was: what its connections were sent, its
\* rows of the table, its entry of the registry and its session with its
\* return value.
C24_RoomsIndependent ==
    [][\A room_id \in Rooms :
          (/\ \A s \in Sessions : SessionActs(s) => sess'[s].room_id # room_id
           /\ \A c \in Conns : ConnActs(c) => ep'[c].room_id # room_id)
          => OfRoom(room_id, active_connections', transport', ep', received',
                    ai_messages', agent_log', sess')
             = OfRoom(room_id, active_connections, transport, ep, received,
                      ai_messages, agent_log, sess)]_vars

\* the session of one room ended FAILED, its client gone and removed, and
\* the session of the other room returned its reply to a client that was
\* sent the prompt and two messages
C24_Witness ==
    \E a, b \in Sessions : \E c, d \in Conns :
        /\ sess[a].pc = "returned" /\ sess[a].outcome = "FAILED"
        /\ sess[b].pc = "returned" /\ sess[b].outcome = "TERMINATED" /\ sess[b].ret = sOk
        /\ sess[a].room_id # sess[b].room_id
        /\ ep[c].room_id = sess[a].room_id /\ transport[c] = "closed"
        /\ received[c] # <<>> /\ RoomsOf(active_connections, c) = {}
        /\ ep[d].room_id = sess[b].room_id /\ Len(received[d]) = 3

\* C25: a connection whose client has gone is in the end in no list of the
\* registry, although it may stay in one for a while; a transport is closed
\* only by a step of its client, one that leaves the registry, the endpoints
\* and the sessions where they are, and an endpoint ends only after its own
\* accept or receive_text failed on a closed transport.
C25_ClosedEventuallyPruned ==
    /\ \A c \in Conns :
          (transport[c] = "closed") ~> (RoomsOf(active_connections, c) = {})
    /\ [][\A c \in Conns :
            /\ (transport'[c] = "closed" /\ transport[c] # "closed")
               => /\ active_connections' = active_connections
                  /\ ep' = ep
                  /\ received' = received
                  /\ \A s \in Sessions : sess'[s].pc = sess[s].pc
            /\ (ep'[c].pc = "done" /\ ep[c].pc # "done")
               => transport[c] = "closed"]_vars

\* one closed connection was removed by the pruning of a broadcast while
\* its endpoint still awaits receive_text, another by the disconnect of its
\* endpoint
C25_Witness ==
    \E c, d \in Conns :
        /\ transport[c] = "closed" /\ ep[c].pc = "receiving"
        /\ RoomsOf(active_connections, c) = {}
        /\ transport[d] = "closed" /\ ep[d].pc = "done" /\ received[d] # <<>>
        /\ RoomsOf(active_connections, d) = {}

\* C26: with a store whose appends complete, sends that complete and a
\* runtime that does not hang, a session that was started returns,
\* TERMINATED or FAILED, and the
\* callback is called on at most one message of the Assistant for the prompt
\* and two for each of the max_consecutive_auto_reply replies of the
\* UserProxy.
C26_SessionTerminates ==
    /\ \A s \in Sessions :
          (sess[s].pc # "idle")
              ~> (sess[s].pc = "returned" /\ sess[s].outcome \in {"TERMINATED", "FAILED"})
    /\ [](\A s \in Sessions : sess[s].n <= 2 * max_consecutive_auto_reply + 1)

\* the session returned after the UserProxy gave its last auto-reply and
\* the Assistant answered it
C26_Witness ==
    \E s \in Sessions :
        /\ sess[s].pc = "returned" /\ sess[s].outcome = "TERMINATED"
        /\ AutoReplies(sess[s].history) = max_consecutive_auto_reply
        /\ sess[s].n = 2 * max_consecutive_auto_reply + 1

\* C27: every call of the callback that has ended returned False, whatever
\* the message was and whatever its append did, and when the runtime or the
\* caller has the control every call that was made has ended.
C27_CallbackReturnsFalse ==
    \A s \in Sessions :
        /\ \A k \in 1..Len(sess[s].rets) : sess[s].rets[k] = FALSE
        /\ Len(sess[s].rets)
              = Cardinality({i \in 1..Len(Trace(s)) : Trace(s)[i].ev = "callback_end"})
        /\ sess[s].pc \in {"runtime", "returned"} => Len(sess[s].rets) = sess[s].n

\* the callback has returned from a message it ignored and from an ordinary
\* message whose append returned an error
C27_Witness ==
    \E s \in Sessions :
        /\ sess[s].rets = <<FALSE, FALSE>>
        /\ Ignored(s, 1) /\ TreatedAsOrdinary(s, 2)
        /\ \E i \in 1..Len(Trace(s)) : AppendFailed(s, i)

\* the callback has returned from a termination event
C27_WitnessTermination ==
    \E s \in Sessions :
        /\ sess[s].rets = <<FALSE>>
        /\ TreatedAsTermination(s, 1)

\* the message_dict of the k-th call of the callback
MessageDict(s, k) == sess[s].history[k].message_dict

NoContentField(message_dict) ==
    message_dict.type # "dict" \/ "content" \notin DOMAIN message_dict.value

\* the k-th call of the callback has handled the string as an ordinary
\* message (it was broadcast and appended with that content), as a
\* termination event or as nothing, according to the class of the string
HandledAs(s, k, content) ==
    /\ IsSentinel(content) => TreatedAsTermination(s, k)
    /\ IsVoid(content) => Ignored(s, k)
    /\ (~IsSentinel(content) /\ ~IsVoid(content)) =>
          /\ TreatedAsOrdinary(s, k)
          /\ \E i \in 1..Len(ai_messages) :
                /\ ai_messages[i].tag = Tag("message", k)
                /\ ai_messages[i].data.content = content

Ended(s) == {Trace(s)[i].k : i \in {j \in 1..Len(Trace(s)) : Trace(s)[j].ev = "callback_end"}}

\* C28 as stated: a message without a content field is handled as the
\* string str(message_dict).
C28_NoContentStringified ==
    \A s \in Sessions : \A k \in Ended(s) :
        NoContentField(MessageDict(s, k)) => HandledAs(s, k, str(MessageDict(s, k)))

\* C28: a message that is not a dict is handled as the string
\* str(message_dict), and a dict without a content field is ignored like a
\* dict whose content is None.
C28_StringifiedUnlessDict ==
    \A s \in Sessions : \A k \in Ended(s) :
        LET message_dict == MessageDict(s, k) IN
        /\ message_dict.type # "dict" => HandledAs(s, k, str(message_dict))
        /\ (message_dict.type = "dict" /\ "content" \notin DOMAIN message_dict.value)
              => Ignored(s, k)
        /\ (message_dict.type = "dict" /\ "content" \in DOMAIN message_dict.value)
              => HandledAs(s, k, message_dict.value.content)

\* the callback has ignored a dict without content and has broadcast and
\* appended a message that was a str
C28_Witness ==
    \E s \in Sessions :
        /\ Ended(s) = {1, 2}
        /\ MessageDict(s, 1).type = "dict" /\ NoContentField(MessageDict(s, 1))
        /\ Ignored(s, 1)
        /\ MessageDict(s, 2).type = "str" /\ MessageDict(s, 2).value = sOk
        /\ TreatedAsOrdinary(s, 2)
        /\ ai_messages[Len(ai_messages)].data.content = sOk

\* the message session s called broadcast_to_room with
CalledWith(s) == Trace(s)[1].message

\* C29: every payload a connection was sent has a timestamp; it is the
\* caller's message when that has a timestamp, and the caller's message
\* with the timestamp of the server added when it has none; the connections
\* of one broadcast are sent the same payload; and the caller's message is,
\* during the call and after it, what it was at the call.
C29_TimestampedCopy ==
    /\ \A c \in Conns : \A i \in 1..Len(received[c]) :
          /\ "timestamp" \in DOMAIN received[c][i].payload
          /\ \A s \in Sessions :
                received[c][i].tag = Tag("call", CallNo(s)) =>
                    LET message == CalledWith(s) IN
                    /\ "timestamp" \in DOMAIN message => received[c][i].payload = message
                    /\ "timestamp" \notin DOMAIN message =>
                          received[c][i].payload = message @@ ("timestamp" :> "now")
    /\ \A c, d \in Conns : \A i \in 1..Len(received[c]), j \in 1..Len(received[d]) :
          (received[c][i].tag = received[d][j].tag)
              => received[c][i].payload = received[d][j].payload
    /\ \A s \in Sessions :
          /\ sess[s].pc = "bc_call" => sess[s].bc.message = CalledWith(s)
          /\ sess[s].pc = "returned" => sess[s].msg = CalledWith(s)

\* two connections were sent the message that came with a timestamp, and
\* one of them the message that got the timestamp of the server
C29_Witness ==
    \E c, d \in Conns :
        /\ c # d
        /\ \E i \in 1..Len(received[c]), j \in 1..Len(received[d]) :
              /\ received[c][i].payload.timestamp = "t0"
              /\ received[d][j].payload = received[c][i].payload
        /\ \E i \in 1..Len(received[c]) : received[c][i].payload.timestamp = "now"
        /\ \A s \in Sessions : sess[s].pc = "returned"

\* the message the k-th call of the callback was made with
Message(s, k) == sess[s].history[k]

\* C30 as stated: a message for which is_termination_msg holds is treated
\* as a termination event by the callback.
C30_PredicateMeansTerminationEvent ==
    \A s \in Sessions : \A k \in Ended(s) :
        (Message(s, k).content # None /\ is_termination_msg(Message(s, k)))
            => TreatedAsTermination(s, k)

\* C30: is_termination_msg holds for every message the callback treats as a
\* termination event, and a message for which it holds is treated as a
\* termination event when its trimmed content is the sentinel alone and as
\* an ordinary message, broadcast and appended, when text precedes the
\* sentinel.
C30_TerminationEventWithinPredicate ==
    \A s \in Sessions : \A k \in Ended(s) :
        LET x == Message(s, k) IN
        x.content # None =>
            /\ TreatedAsTermination(s, k) => is_termination_msg(x)
            /\ is_termination_msg(x) =>
                  /\ TreatedAsTermination(s, k) <=> upper(strip(x.content)) = sTERMINATE
                  /\ TreatedAsOrdinary(s, k) <=> upper(strip(x.content)) # sTERMINATE

\* the callback has broadcast and appended "done TERMINATE" as an ordinary
\* message and has treated " TERMINATE " as a termination event
C30_Witness ==
    \E s \in Sessions :
        /\ Ended(s) = {1, 2}
        /\ Message(s, 1).content = sDoneTERMINATE /\ is_termination_msg(Message(s, 1))
        /\ TreatedAsOrdinary(s, 1)
        /\ \E i \in 1..Len(ai_messages) : ai_messages[i].data.content = sDoneTERMINATE
        /\ Message(s, 2).content = sTermPadded /\ is_termination_msg(Message(s, 2))
        /\ TreatedAsTermination(s, 2)

\* the record of the k-th message of session s is in the table
Stored(s, k) ==
    \E i \in 1..Len(ai_messages) :
        /\ ai_messages[i].tag = Tag("message", k)
        /\ ai_messages[i].data.room_id = sess[s].room_id

\* C31: for every message whose call of the callback has ended, the System
\* notice "Failed to store message from <agent> to database." was broadcast
\* iff the record of the message is not in the table.
C31_NoticeIffNotStored ==
    \A s \in Sessions : \A k \in Ended(s) :
        TreatedAsOrdinary(s, k) => (Did(s, k, "broadcast", "db_error") <=> ~Stored(s, k))

\* connection c is in the live list of the room
Member(ac, c, room_id) == room_id \in DOMAIN ac /\ InList(c, ac[room_id])

\* the step in which session s calls broadcast_to_room from outside a
\* broadcast
BroadcastCalledBy(s) ==
    /\ sess[s].pc \notin BcPcs
    /\ \E i \in Len(sess[s].trace) + 1 .. Len(sess'[s].trace) :
          sess'[s].trace[i].ev = "broadcast"

\* C32: the step in which a broadcast returns removes from the registry only
\* connections of the room of the call whose send failed in the call, none
\* of which is a connection the call has sent the message to; the sends of a
\* call before its return leave the registry as it is; and a call for a room
\* that has no entry in the registry leaves the registry as it is and sends
\* nothing.
C32_BroadcastRemovesOnlyFailed ==
    [][\A s \in Sessions :
          /\ BroadcastReturns(s) =>
                /\ \A room_id \in Rooms : \A c \in Conns :
                      (Member(active_connections, c, room_id)
                         /\ ~Member(active_connections', c, room_id))
                      => (room_id = sess[s].room_id /\ c \in FailedAtReturn(s))
                /\ Range(DeliveredAtReturn(s)) \cap FailedAtReturn(s) = {}
          /\ (sess[s].pc \in BcPcs /\ ~BroadcastReturns(s) /\ sess'[s] # sess[s]
                 /\ sess'[s].bc.idx # sess[s].bc.idx)
                => active_connections' = active_connections
          /\ (BroadcastCalledBy(s) /\ sess'[s].room_id \notin DOMAIN active_connections)
                => /\ active_connections' = active_connections
                   /\ received' = received
                   /\ sess'[s].pc \notin BcPcs]_vars

\* a broadcast to room r1 has returned: the closed connection of r1 was
\* removed by it and the connection of r2 is in its list
C32_Witness ==
    \E s \in Sessions : \E c, d \in Conns :
        /\ sess[s].room_id = "r1" /\ sess[s].pc = "runtime"
        /\ ep[c] = [pc |-> "receiving", room_id |-> "r1"] /\ transport[c] = "closed"
        /\ RoomsOf(active_connections, c) = {}
        /\ Member(active_connections, d, "r2")

\* a broadcast to room r1 has returned: the connection it has sent the
\* message to is in the list, the closed one was removed by it
C32_WitnessSameRoom ==
    \E s \in Sessions : \E c, d \in Conns :
        /\ sess[s].room_id = "r1" /\ sess[s].pc = "runtime"
        /\ ep[c] = [pc |-> "receiving", room_id |-> "r1"] /\ transport[c] = "closed"
        /\ RoomsOf(active_connections, c) = {}
        /\ Member(active_connections, d, "r1") /\ received[d] # <<>>

\* the append of the prompt of session s was awaited and returned an error
\* without storing the record
PromptAppendFailed(s) ==
    /\ \E i \in Events(s, "append", Tag("prompt", 0)) : ~Trace(s)[i].raised
    /\ Rows(Tag("prompt", 0)) = {}

\* C33: when the append of the prompt has returned an error, then by the
\* time the runtime is invoked the prompt was broadcast and a System error
\* notice was broadcast for it.
C33_PromptErrorNoticed ==
    \A s \in Sessions :
        (PromptAppendFailed(s) /\ sess[s].pc \in {"runtime", "returned"}) =>
            /\ Events(s, "broadcast", Tag("prompt", 0)) # {}
            /\ Events(s, "broadcast", Tag("db_error", 0)) # {}

\* no element is in the list twice
NoDuplicates(list) ==
    \A i, j \in 1..Len(list) : list[i] = list[j] => i = j

\* C34: no live list holds a connection twice; a broadcast starts at most
\* one send to a connection, and a connection is sent at most one copy of
\* the message of a broadcast; and after the disconnect of its endpoint a
\* connection is in no live list.
C34_NoDuplicateConnection ==
    /\ [](\A room_id \in DOMAIN active_connections :
             NoDuplicates(active_connections[room_id]))
    /\ [](\A s \in Sessions : sess[s].bc.active => NoDuplicates(sess[s].bc.attempted))
    /\ [](\A c \in Conns : \A i, j \in 1..Len(received[c]) :
             received[c][i].tag = received[c][j].tag => i = j)
    /\ [][\A c \in Conns :
            (ep[c].pc = "receiving" /\ ep'[c].pc = "done")
                => RoomsOf(active_connections', c) = {}]_vars

\* two connections of one room were sent the prompt and a message, one copy
\* of each, and then the endpoint of one of them has disconnected it
C34_Witness ==
    \E c, d \in Conns :
        /\ c # d /\ ep[c].room_id = ep[d].room_id
        /\ Len(received[c]) = 2 /\ Len(received[d]) = 2
        /\ ep[c].pc = "done" /\ RoomsOf(active_connections, c) = {}
        /\ RoomsOf(active_connections, d) = {ep[d].room_id}

\* the accept of the endpoint of c has not returned
NotAccepted(c) == ep[c].pc \in {"idle", "accepting"}

\* C35: a connection whose accept has not returned is in no live list and
\* was sent nothing, and no broadcast has started a send to it; the step in
\* which an endpoint begins to await accept and the step in which accept
\* raises leave the registry as it is, and a connection whose accept raised
\* is in no live list.
C35_RegisteredAfterAccept ==
    /\ [](\A c \in Conns :
             NotAccepted(c) =>
                 /\ RoomsOf(active_connections, c) = {}
                 /\ received[c] = <<>>
                 /\ \A s \in Sessions :
                       sess[s].bc.active => c \notin Range(sess[s].bc.attempted))
    /\ [][\A c \in Conns :
            /\ (ep[c].pc = "idle" /\ ep'[c].pc = "accepting")
                  => active_connections' = active_connections
            /\ (ep[c].pc = "accepting" /\ ep'[c].pc = "done")
                  => /\ active_connections' = active_connections
                     /\ RoomsOf(active_connections', c) = {}]_vars

\* a broadcast to a room is suspended in a send to a connection while the
\* accept of another connection of the room is pending
C35_Witness ==
    \E s \in Sessions : \E c, d \in Conns :
        /\ sess[s].bc.active /\ sess[s].bc.cur = d
        /\ ep[c] = [pc |-> "accepting", room_id |-> sess[s].room_id]
        /\ ep[d] = [pc |-> "receiving", room_id |-> sess[s].room_id]
        /\ RoomsOf(active_connections, c) = {}

\* a broadcast to the room has returned after the accept of a connection of
\* the room raised: the connection was sent nothing
C35_WitnessRaised ==
    \E s \in Sessions : \E c, d \in Conns :
        /\ sess[s].pc = "runtime"
        /\ ep[c] = [pc |-> "done", room_id |-> sess[s].room_id]
        /\ received[c] = <<>> /\ RoomsOf(active_connections, c) = {}
        /\ ep[d].room_id = sess[s].room_id /\ received[d] # <<>>

====
